---- MODULE Spec2Model ----
(***************************************************************************)
(* The Truth Machine: the Wikipedia scraper's tiered retrieval             *)
(* (src/utils/wikipedia_scraper.py) and the claim pipeline orchestration   *)
(* (src/main.py, src/main_local.py).                                       *)
(*                                                                         *)
(* Texts are TLA+ strings.  A Python Optional[str] is a record             *)
(* [some, text]; a call's outcome is a record [kind, value, exc] with      *)
(* kind "return" or "raise".                                               *)
(***************************************************************************)
EXTENDS Integers, Sequences, FiniteSets, TLC

----------------------------------------------------------------------------
(* Python values *)

None == [some |-> FALSE, text |-> ""]

Some(t) == [some |-> TRUE, text |-> t]

\* Python truthiness of an Optional[str]: None and "" are falsy.
Truthy(o) == o.some /\ o.text # ""

Return(v) == [kind |-> "return", value |-> v, exc |-> ""]

Raise(e) == [kind |-> "raise", value |-> None, exc |-> e]

----------------------------------------------------------------------------
(* String helpers (str methods used by the source) *)

CharAt(s, i) == SubSeq(s, i, i)

Whitespace == {" ", "\n", "\t", "\r"}

RECURSIVE LStrip(_)
LStrip(s) ==
    IF Len(s) > 0 /\ CharAt(s, 1) \in Whitespace
    THEN LStrip(SubSeq(s, 2, Len(s)))
    ELSE s

RECURSIVE RStrip(_)
RStrip(s) ==
    IF Len(s) > 0 /\ CharAt(s, Len(s)) \in Whitespace
    THEN RStrip(SubSeq(s, 1, Len(s) - 1))
    ELSE s

\* str.strip()
Strip(s) == RStrip(LStrip(s))

\* s.startswith(p)
StartsWith(s, p) == Len(p) <= Len(s) /\ SubSeq(s, 1, Len(p)) = p

\* sub in s
Contains(s, sub) ==
    \E i \in 1..(Len(s) - Len(sub) + 1) : SubSeq(s, i, i + Len(sub) - 1) = sub

\* s.find(sub) as a 1-based index, 0 when absent
Find(s, sub) ==
    IF Contains(s, sub)
    THEN CHOOSE i \in 1..(Len(s) - Len(sub) + 1) :
            /\ SubSeq(s, i, i + Len(sub) - 1) = sub
            /\ \A j \in 1..(i - 1) : SubSeq(s, j, j + Len(sub) - 1) # sub
    ELSE 0

\* s.split(sep) for a one-character separator
RECURSIVE Split(_, _)
Split(s, sep) ==
    LET i == Find(s, sep)
    IN  IF i = 0
        THEN <<s>>
        ELSE <<SubSeq(s, 1, i - 1)>> \o Split(SubSeq(s, i + 1, Len(s)), sep)

\* sep.join(parts)
RECURSIVE Join(_, _)
Join(sep, parts) ==
    IF Len(parts) = 0 THEN ""
    ELSE IF Len(parts) = 1 THEN parts[1]
    ELSE parts[1] \o sep \o Join(sep, Tail(parts))

----------------------------------------------------------------------------
(* urllib.parse as used by _extract_title_from_wiki_url *)

\* Index of the first character of s that is in chars, Len(s) + 1 when none is.
FirstOf(s, chars) ==
    IF \E i \in 1..Len(s) : CharAt(s, i) \in chars
    THEN CHOOSE i \in 1..Len(s) :
            /\ CharAt(s, i) \in chars
            /\ \A j \in 1..(i - 1) : CharAt(s, j) \notin chars
    ELSE Len(s) + 1

\* urlparse(url): scheme ":" ["//" netloc] path ["?" query] ["#" fragment].
\* Where the scheme ends: the first ":" when only scheme characters precede it.
SchemeEndAt(url, c) ==
    IF c > 1 /\ FirstOf(SubSeq(url, 1, c - 1), {"/", "?", "#"}) = c THEN c ELSE 0

AfterScheme(url) == SubSeq(url, SchemeEndAt(url, Find(url, ":")) + 1, Len(url))

CutAt(s, n) == [netloc |-> SubSeq(s, 1, n - 1), tail |-> SubSeq(s, n, Len(s))]

\* The netloc follows "//" and ends before the first "/", "?" or "#".
SplitNetloc(rest) ==
    IF StartsWith(rest, "//")
    THEN CutAt(SubSeq(rest, 3, Len(rest)),
               FirstOf(SubSeq(rest, 3, Len(rest)), {"/", "?", "#"}))
    ELSE [netloc |-> "", tail |-> rest]

\* An opening bracket in the netloc without its closing one raises ValueError.
ParsedUrl(nt) ==
    IF Contains(nt.netloc, "[") /\ ~Contains(nt.netloc, "]")
    THEN [ok |-> FALSE, netloc |-> "", path |-> ""]
    ELSE [ok |-> TRUE, netloc |-> nt.netloc,
          path |-> SubSeq(nt.tail, 1, FirstOf(nt.tail, {"?", "#"}) - 1)]

UrlParse(url) == ParsedUrl(SplitNetloc(AfterScheme(url)))

\* The percent escapes of the model's alphabet (two hex digits -> character).
PercentTable ==
    [h \in {"0A", "20", "22", "23", "25", "26", "27", "28", "29", "2B", "2b", "2C",
            "2F", "2f", "3A", "3D", "3F", "3f", "7B", "7D"} |->
        CASE h = "20" -> " "
          [] h = "0A" -> "\n"
          [] h = "22" -> "\""
          [] h = "23" -> "#"
          [] h = "26" -> "&"
          [] h = "27" -> "'"
          [] h = "2C" -> ","
          [] h = "3A" -> ":"
          [] h = "3D" -> "="
          [] h = "7B" -> "{"
          [] h = "7D" -> "}"
          [] h = "25" -> "%"
          [] h = "28" -> "("
          [] h = "29" -> ")"
          [] h \in {"2B", "2b"} -> "+"
          [] h \in {"2F", "2f"} -> "/"
          [] h \in {"3F", "3f"} -> "?"]

\* unquote(s): every %XX escape is replaced by its character; a "%" that starts
\* no escape stays as it is.
RECURSIVE Unquote(_)
Unquote(s) ==
    IF Len(s) = 0 THEN ""
    ELSE IF CharAt(s, 1) = "%" /\ Len(s) >= 3 /\ SubSeq(s, 2, 3) \in DOMAIN PercentTable
         THEN PercentTable[SubSeq(s, 2, 3)] \o Unquote(SubSeq(s, 4, Len(s)))
         ELSE CharAt(s, 1) \o Unquote(SubSeq(s, 2, Len(s)))

\* parts = parsed.path.split("/"); if len(parts) >= 3 and parts[1] == "wiki":
\* return unquote(parts[2])
TitleOfParts(parts) ==
    IF Len(parts) >= 3 /\ parts[2] = "wiki" THEN Some(Unquote(parts[3])) ELSE None

\* The title, with the test of the host left out.
TitleOfParsed_AnyHost(parsed) ==
    IF ~parsed.ok THEN None
    ELSE TitleOfParts(Split(parsed.path, "/"))

\* if "wikipedia.org" not in parsed.netloc: return None; except Exception: return None
TitleOfParsed(parsed) ==
    IF ~parsed.ok THEN None
    ELSE IF ~Contains(parsed.netloc, "wikipedia.org") THEN None
    ELSE TitleOfParts(Split(parsed.path, "/"))

\* _extract_title_from_wiki_url(url) -> Optional[str]
ExtractTitleFromWikiUrl(url) == TitleOfParsed(UrlParse(url))

----------------------------------------------------------------------------
(* HTTP stub responses and parsed documents *)

HttpResp(status, text, doc) ==
    [kind |-> "resp", status |-> status, text |-> text, doc |-> doc, exc |-> ""]

NoDoc == [hasMain |-> FALSE, els |-> <<>>]

HttpExc(e) ==
    [kind |-> "exc", status |-> 0, text |-> "", doc |-> NoDoc, exc |-> e]

\* One element of a parsed page: its tag, its class, its text, and whether it
\* lies inside "#mw-content-text .mw-parser-output".
El(tag, cls, text, inMain) ==
    [tag |-> tag, cls |-> cls, text |-> text, inMain |-> inMain]

\* REMOVE_SELECTORS (class selectors)
REMOVE_SELECTORS ==
    {"navbox", "infobox", "sidebar", "reference", "mw-editsection",
     "mw-jump-link", "toc", "catlinks", "mw-cite-backlink"}

\* "h1,h2,h3,h4,h5,h6,p,li"
BlockTags == {"h1", "h2", "h3", "h4", "h5", "h6", "p", "li"}

\* The page with nothing removed
Decompose_Nothing(els) == els

\* for sel in REMOVE_SELECTORS: for el in soup.select(sel): el.decompose()
Decompose(els) == SelectSeq(els, LAMBDA e : e.cls \notin REMOVE_SELECTORS)

\* blocks: the stripped text of every block element, when longer than 10
RECURSIVE Blocks(_)
Blocks(els) ==
    IF Len(els) = 0 THEN <<>>
    ELSE LET e    == Head(els)
             text == Strip(e.text)
         IN  (IF e.tag \in BlockTags /\ text # "" /\ Len(text) > 10
              THEN <<text>> ELSE <<>>) \o Blocks(Tail(els))

\* "\n\n".join(blocks) if blocks else None
JoinBlocks(blocks) == IF Len(blocks) > 0 THEN Some(Join("\n\n", blocks)) ELSE None

----------------------------------------------------------------------------
(* The three tiers.  Each takes what the HTTP GET answers and gives the  *)
(* outcome of the call: Return(Optional text) or Raise(exception).       *)

\* _wiki_rest_plain_text(title)
WikiRestPlainText_Stripped(title, r) ==
    IF r.kind = "exc" THEN Raise(r.exc)
    ELSE IF r.status = 200 /\ Strip(r.text) # "" THEN Return(Some(Strip(r.text)))
    ELSE Return(None)

WikiRestPlainText(title, r) ==
    IF r.kind = "exc" THEN Raise(r.exc)
    ELSE IF r.status = 200 /\ Strip(r.text) # "" THEN Return(Some(r.text))
    ELSE Return(None)

\* _wiki_rest_mobile_html(title)
WikiRestMobileHtml(title, r) ==
    IF r.kind = "exc" THEN Raise(r.exc)
    ELSE IF r.status # 200 THEN Return(None)
    ELSE Return(JoinBlocks(Blocks(Decompose(r.doc.els))))

\* _generic_html_scrape(url): raise_for_status() raises HTTPError on 4xx/5xx.
GenericHtmlScrape(url, r) ==
    IF r.kind = "exc" THEN Raise(r.exc)
    ELSE IF r.status >= 400 THEN Raise("HTTPError")
    ELSE LET content == IF r.doc.hasMain
                        THEN SelectSeq(r.doc.els, LAMBDA e : e.inMain)
                        ELSE r.doc.els
         IN  Return(JoinBlocks(Blocks(Decompose(content))))

----------------------------------------------------------------------------
(* scrape_wikipedia_content *)

\* Falling out of a try block to the statement after it.
FallThrough == [kind |-> "next", value |-> None, exc |-> ""]

\* try: txt = _wiki_rest_plain_text(title); if txt: return txt
\* except requests.HTTPError: pass / except Exception: pass
PlainTierTry_NoCatch(title, web) ==
    LET o == WikiRestPlainText(title, web.plain)
    IN  IF o.kind = "raise" THEN o
        ELSE IF Truthy(o.value) THEN Return(o.value)
        ELSE FallThrough

PlainTierTry(title, web) ==
    LET o == WikiRestPlainText(title, web.plain)
    IN  IF o.kind = "return" /\ Truthy(o.value) THEN Return(o.value)
        ELSE FallThrough

\* try: txt = _wiki_rest_mobile_html(title); if txt: return txt
\* except requests.HTTPError: pass / except Exception: pass
MobileTierTry(title, web) ==
    LET o == WikiRestMobileHtml(title, web.mobile)
    IN  IF o.kind = "return" /\ Truthy(o.value) THEN Return(o.value)
        ELSE FallThrough

\* try: return _generic_html_scrape(url)
\* except requests.HTTPError: print; return None / except Exception: print; return None
GenericTierTry_HttpErrorOnly(url, web) ==
    LET o == GenericHtmlScrape(url, web.generic)
    IN  IF o.kind = "return" THEN Return(o.value)
        ELSE IF o.exc = "HTTPError" THEN Return(None)
        ELSE o

GenericTierTry(url, web) ==
    LET o == GenericHtmlScrape(url, web.generic)
    IN  IF o.kind = "return" THEN Return(o.value)
        ELSE Return(None)

\* Lines 127-149: what follows a plain-text tier that returned nothing.
AfterPlainTier(url, title, web) ==
    LET m == MobileTierTry(title, web)
    IN  IF m.kind # "next"
        THEN [out |-> m, calls |-> <<"plain", "mobile">>]
        ELSE [out |-> GenericTierTry(url, web),
              calls |-> <<"plain", "mobile", "sleep", "generic">>]

\* Lines 116-149, title being what _extract_title_from_wiki_url gave
ScrapeWithTitle(url, title, web) ==
    IF Truthy(title)
    THEN IF PlainTierTry(title.text, web).kind # "next"
         THEN [out |-> PlainTierTry(title.text, web), calls |-> <<"plain">>]
         ELSE AfterPlainTier(url, title.text, web)
    ELSE [out |-> GenericTierTry(url, web), calls |-> <<"generic">>]

\* scrape_wikipedia_content(url), given what the web answers to each tier's GET:
\* the outcome of the call and the tiers it called, in order ("sleep" is the
\* 0.4 s pause before the generic tier).
ScrapeWikipediaContent(url, web) ==
    ScrapeWithTitle(url, ExtractTitleFromWikiUrl(url), web)

----------------------------------------------------------------------------
(* The inputs of the scraper's specification *)

DocArticle ==
    [hasMain |-> FALSE,
     els |-> << El("h1", "", "Ada Lovelace page", FALSE),
                El("div", "navbox", "Navigation links", FALSE),
                El("p", "", " Ada was born on 10 December 1815. ", FALSE),
                El("p", "", "Short", FALSE),
                El("li", "reference", "^ Citation needed", FALSE),
                El("div", "", "Plain div text here", FALSE) >>]

DocBoilerplate ==
    [hasMain |-> FALSE,
     els |-> << El("p", "infobox", "Infobox paragraph", FALSE),
                El("p", "", "tiny", FALSE),
                El("span", "", "A span of long text", FALSE) >>]

DocMain ==
    [hasMain |-> TRUE,
     els |-> << El("p", "", "Site header paragraph", FALSE),
                El("p", "", "Ada was born on 10 December 1815.", TRUE),
                El("li", "toc", "Table of contents", TRUE) >>]

ScrapeUrls ==
    { "https://en.wikipedia.org/wiki/Ada_Lovelace",
      "https://en.wikipedia.org/wiki/Ada_Lovelace#Early_life",
      "https://en.wikipedia.org/wiki/C%2B%2B?action=raw",
      "https://en.wikipedia.org/w/index.php?title=Ada",
      "https://en.wikipedia.org/wiki/",
      "https://en.wikipedia.org/wiki",
      "https://example.com/wiki/Ada_Lovelace",
      "https://example.com/page",
      "http://[::1/wiki/Ada" }

PlainResponses ==
    { HttpResp(200, "Plain text", NoDoc),
      HttpResp(200, " Plain text\n", NoDoc),
      HttpResp(200, "", NoDoc),
      HttpResp(200, " \n", NoDoc),
      HttpResp(404, "Not found.", NoDoc),
      HttpExc("ConnectionError"),
      HttpExc("HTTPError") }

MobileResponses ==
    { HttpResp(200, "", DocArticle),
      HttpResp(200, "", DocBoilerplate),
      HttpResp(404, "", DocArticle),
      HttpExc("Timeout") }

GenericResponses ==
    { HttpResp(200, "", DocMain),
      HttpResp(200, "", DocArticle),
      HttpResp(200, "", DocBoilerplate),
      HttpResp(404, "", DocArticle),
      HttpResp(503, "", NoDoc),
      HttpExc("ConnectionError") }

Webs == [plain : PlainResponses, mobile : MobileResponses, generic : GenericResponses]

NoScrape == [out |-> FallThrough, calls |-> <<>>]

----------------------------------------------------------------------------
(* The language-model gateway and the search engine, as stubs: what each  *)
(* answers is a function of what it is asked.                             *)

\* A JSON value of the judge's answer: a string, a number, or no such key.
JStr(t) == [t |-> "str", s |-> t]

JNum == [t |-> "num", s |-> ""]

JAbsent == [t |-> "absent", s |-> ""]

\* What the JSON parsers make of a judge text: embedded: the pattern
\* \{[^}]*"label"[^}]*"evidence"[^}]*\} matches a part of it; whole: the text
\* is that object and nothing else; valid: json.loads accepts the matched part.
NoJson ==
    [embedded |-> FALSE, whole |-> FALSE, valid |-> FALSE,
     label |-> JAbsent, evidence |-> JAbsent]

JsonObj(whole, label, evidence) ==
    [embedded |-> TRUE, whole |-> whole, valid |-> TRUE,
     label |-> label, evidence |-> evidence]

\* A gateway answer: text, no text, or an exception of the transport.
GwText(t, j) == [kind |-> "text", text |-> t, json |-> j]

GwNone == [kind |-> "none", text |-> "", json |-> NoJson]

GwExc == [kind |-> "exc", text |-> "", json |-> NoJson]

ClaimAda == "Ada Lovelace was born in 1815."

ClaimTuring == "Alan Turing was born in 1912."

ClaimMoon == "The Moon is made of cheese."

ClaimParis == "Paris is in France."

ClaimPi == "Pi equals 3."

ClaimWater == "Water boils at 100 C."

ClaimAtlantis == "Atlantis sank in 9600 BC."

ClaimMars == "Mars has two moons."

\* A claim put to the pools alone: its search answers five links
ClaimRome == "Rome was founded in 753 BC."

ClaimTexts ==
    {ClaimAda, ClaimTuring, ClaimMoon, ClaimParis, ClaimPi, ClaimWater, ClaimAtlantis,
     ClaimMars}

UrlAda == "https://en.wikipedia.org/wiki/Ada_Lovelace"

UrlGone == "https://en.wikipedia.org/wiki/Atlantis_(island)"

UrlTuring == "https://en.wikipedia.org/wiki/Alan_Turing"

UrlTuringBlog == "https://example.com/turing"

UrlPi == "https://en.wikipedia.org/wiki/Pi"

UrlMars == "https://en.wikipedia.org/wiki/Mars"

UrlWater == "https://example.com/water"

TextAda == "Ada Lovelace was born on 10 December 1815 in London."

TextMars == "Mars has two moons, Phobos and Deimos."

TextTuring == "Born in 1912\n\nAlan Turing was born on 23 June 1912."

DocTuring ==
    [hasMain |-> FALSE,
     els |-> << El("h2", "", "Born in 1912", FALSE),
                El("li", "mw-cite-backlink", "Jump up to: a b c", FALSE),
                El("p", "", "Alan Turing was born on 23 June 1912.", FALSE) >>]

DocTuringBlog ==
    [hasMain |-> TRUE,
     els |-> << El("p", "", "Subscribe to this blog", FALSE),
                El("p", "", "Turing was born in 1921.", TRUE) >>]

DocPi ==
    [hasMain |-> FALSE,
     els |-> << El("p", "", "Pi is approximately 3.14159.", FALSE) >>]

DocWater ==
    [hasMain |-> FALSE,
     els |-> << El("p", "", "Water boils at 100 degrees Celsius.", FALSE) >>]

\* What the web answers to the three GETs a retrieval of url can make.
WebOf(url) ==
    CASE url = UrlAda ->
            [plain |-> HttpResp(200, TextAda, NoDoc),
             mobile |-> HttpResp(200, "", DocArticle),
             generic |-> HttpResp(200, "", DocArticle)]
      [] url = UrlGone ->
            [plain |-> HttpResp(404, "Not found.", NoDoc),
             mobile |-> HttpExc("Timeout"),
             generic |-> HttpResp(404, "", NoDoc)]
      [] url = UrlTuring ->
            [plain |-> HttpExc("ConnectionError"),
             mobile |-> HttpResp(200, "", DocTuring),
             generic |-> HttpResp(200, "", DocTuring)]
      [] url = UrlTuringBlog ->
            [plain |-> HttpResp(404, "", NoDoc),
             mobile |-> HttpResp(404, "", NoDoc),
             generic |-> HttpResp(200, "", DocTuringBlog)]
      [] url = UrlPi ->
            [plain |-> HttpResp(200, " \n", NoDoc),
             mobile |-> HttpResp(200, "", DocBoilerplate),
             generic |-> HttpResp(200, "", DocPi)]
      [] url = UrlMars ->
            [plain |-> HttpResp(200, TextMars, NoDoc),
             mobile |-> HttpResp(200, "", DocBoilerplate),
             generic |-> HttpResp(503, "", NoDoc)]
      [] url = UrlWater ->
            [plain |-> HttpResp(404, "", NoDoc),
             mobile |-> HttpResp(404, "", NoDoc),
             generic |-> HttpResp(200, "", DocWater)]
      [] OTHER ->
            [plain |-> HttpExc("ConnectionError"),
             mobile |-> HttpExc("ConnectionError"),
             generic |-> HttpExc("ConnectionError")]

\* The gateway's answer to the optimize prompt of a claim.
GatewayOptimize(claim) ==
    CASE claim = ClaimAda -> GwText("Ada Lovelace was born in the year 1815.", NoJson)
      [] claim = ClaimTuring -> GwText("Alan Turing's year of birth is 1912.", NoJson)
      [] claim = ClaimMoon -> GwNone
      [] claim = ClaimParis -> GwExc
      [] claim = ClaimPi -> GwText("", NoJson)
      [] OTHER -> GwText(claim, NoJson)

\* The gateway's answer to the target-article prompt of a claim.
GatewayArticle(claim) ==
    CASE claim = ClaimAda -> GwText("Ada Lovelace", NoJson)
      [] claim = ClaimTuring -> GwText("Alan Turing", NoJson)
      [] claim = ClaimMoon -> GwNone
      [] claim = ClaimParis -> GwText("Paris", NoJson)
      [] claim = ClaimPi -> GwText("Pi", NoJson)
      [] claim = ClaimWater -> GwExc
      [] claim = ClaimAtlantis -> GwText("Atlantis", NoJson)
      [] claim = ClaimMars -> GwText("Mars", NoJson)
      [] claim = ClaimRome -> GwText("Rome", NoJson)
      [] OTHER -> GwNone

\* A search answer: the items' links in ranked order (None: an item without
\* a link), or a failed request.
SearchItems(links) == [kind |-> "items", links |-> links]

SearchFailed == [kind |-> "exc", links |-> <<>>]

\* The search engine's answer to a query.
SearchResponse(query) ==
    CASE query = "Ada Lovelace" -> SearchItems(<<Some(UrlAda)>>)
      [] query = "Alan Turing" ->
            SearchItems(<<None, Some(UrlTuring), Some(UrlTuringBlog), Some(UrlGone)>>)
      [] query = "Atlantis" -> SearchItems(<<Some(UrlGone), Some(UrlGone)>>)
      [] query = "Paris" -> SearchItems(<<None>>)
      [] query = "Pi" -> SearchItems(<<Some(UrlPi)>>)
      [] query = "Mars" -> SearchItems(<<Some(UrlMars)>>)
      [] query = "Rome" ->
            SearchItems(<<Some(UrlGone), Some(UrlAda), Some(UrlGone), Some(UrlMars),
                          Some(UrlGone)>>)
      [] query = ClaimWater -> SearchItems(<<Some(UrlWater)>>)
      [] query = "" -> SearchItems(<<>>)
      [] OTHER -> SearchFailed

JudgeAdaText == "{\"label\": \"True\", \"evidence\": \"born on 10 December 1815\"}"

JudgeTuringText ==
    "Answer: {\"label\": \"True\", \"evidence\": \"born on 23 June 1912\"} as asked."

JudgeBlogText == "The claim is false."

JudgePiText == "{\"label\": \"False\", \"evidence\": 3.14159}"

\* Claims put to the judge stage alone
ClaimVenus == "Venus is hot."

ClaimEarth == "Earth is round."

ClaimJupiter == "Jupiter is big."

ClaimSaturn == "Saturn has rings."

ClaimNeptune == "Neptune is blue."

JudgeVenusText == "{\"label\": \"Maybe\", \"evidence\": \"unclear\"}"

\* A prose answer of more than 200 characters
JudgeNeptuneText ==
    "The article gives no date for this event and no figure that could settle it. "
    \o "It only describes the region, its climate and its history in general terms. "
    \o "Nothing in the passage supports the claim or contradicts it."

JudgeEarthText == "It is TRUE: the page says so."

\* No JSON: True is Python's spelling
JudgeJupiterText == "{\"label\": True, \"evidence\": \"the largest planet\"}"

\* Both words, and a quoted evidence after some space
ClaimUranus == "Uranus has rings."

JudgeUranusText == "Label: False. \"evidence\":  \"it is not true that it has none\" (p. 2)"

\* Neither word, and a quoted evidence
ClaimMercury == "Mercury has moons."

JudgeMercuryText == "{\"label\": No, \"evidence\": \"no known moons\"}"

\* The gateway's answer to the judge prompt of a claim and a page text.
GatewayJudge(claim, content) ==
    CASE claim = ClaimAda ->
            GwText(JudgeAdaText,
                   JsonObj(TRUE, JStr("True"), JStr("born on 10 December 1815")))
      [] claim = ClaimTuring /\ content = TextTuring ->
            GwText(JudgeTuringText,
                   JsonObj(FALSE, JStr("True"), JStr("born on 23 June 1912")))
      [] claim = ClaimTuring /\ content # TextTuring -> GwText(JudgeBlogText, NoJson)
      [] claim = ClaimPi -> GwText(JudgePiText, JsonObj(TRUE, JStr("False"), JNum))
      [] claim = ClaimWater -> GwNone
      [] claim = ClaimVenus ->
            GwText(JudgeVenusText, JsonObj(TRUE, JStr("Maybe"), JStr("unclear")))
      [] claim = ClaimEarth -> GwText(JudgeEarthText, NoJson)
      [] claim = ClaimJupiter ->
            GwText(JudgeJupiterText,
                   [embedded |-> TRUE, whole |-> TRUE, valid |-> FALSE,
                    label |-> JAbsent, evidence |-> JAbsent])
      [] claim = ClaimSaturn -> GwText("", NoJson)
      [] claim = ClaimNeptune -> GwText(JudgeNeptuneText, NoJson)
      [] claim = ClaimUranus -> GwText(JudgeUranusText, NoJson)
      [] claim = ClaimMercury ->
            GwText(JudgeMercuryText,
                   [embedded |-> TRUE, whole |-> TRUE, valid |-> FALSE,
                    label |-> JAbsent, evidence |-> JAbsent])
      [] OTHER -> GwExc

----------------------------------------------------------------------------
(* The stages of the pipeline *)

Min(a, b) == IF a <= b THEN a ELSE b

\* LocalOpenAIClient._make_request: the answer's text, None on any failure.
MakeRequest(resp) == IF resp.kind = "text" THEN Some(resp.text) ELSE None

\* LocalOpenAIClient.optimize_claim, the gateway answering resp
LocalOptimizeClaimOn(resp, claim) ==
    LET response == MakeRequest(resp)
    IN  IF Truthy(response) THEN response.text ELSE claim

\* local_claims.optimize_claim / LocalOpenAIClient.optimize_claim
LocalOptimizeClaim(claim) == LocalOptimizeClaimOn(GatewayOptimize(claim), claim)

\* local_claims.get_query_for_wiki_article / LocalOpenAIClient.get_wiki_article_name
LocalGetWikiArticleName(claim) ==
    LET response == MakeRequest(GatewayArticle(claim))
    IN  IF Truthy(response) THEN response.text ELSE claim

\* claims.optimize_claim: output_text or "", the claim when the call raises
OptimizeClaimOn(resp, claim) ==
    IF resp.kind = "exc" THEN claim
    ELSE IF resp.kind = "text" THEN resp.text ELSE ""

\* claims.optimize_claim
OptimizeClaim(claim) == OptimizeClaimOn(GatewayOptimize(claim), claim)

\* claims.get_query_for_wiki_article: output_text or "", "" when the call raises
GetQueryForWikiArticle(claim) ==
    LET resp == GatewayArticle(claim)
    IN  IF resp.kind = "exc" THEN ""
        ELSE IF resp.kind = "text" THEN resp.text ELSE ""

\* An Optional[List[str]]
NoUrls == [some |-> FALSE, v |-> <<>>]

SomeUrls(l) == [some |-> TRUE, v |-> l]

RECURSIVE Links(_)
\* [item.get("link") for item in items if item.get("link")]
Links(items) ==
    IF Len(items) = 0 THEN <<>>
    ELSE (IF Truthy(Head(items)) THEN <<Head(items).text>> ELSE <<>>)
         \o Links(Tail(items))

\* get_first_n_results_urls returning urls where the code returns urls[:n]
GetFirstNResultsUrls_NoSlice(query, n) ==
    LET resp == SearchResponse(query)
        urls == Links(resp.links)
    IN  IF resp.kind = "exc" THEN NoUrls
        ELSE IF Len(urls) > 0 THEN SomeUrls(urls)
        ELSE NoUrls

\* get_first_n_results_urls(query, n)
GetFirstNResultsUrls(query, n) ==
    LET resp == SearchResponse(query)
        urls == Links(resp.links)
    IN  IF resp.kind = "exc" THEN NoUrls
        ELSE IF Len(urls) > 0 THEN SomeUrls(SubSeq(urls, 1, Min(n, Len(urls))))
        ELSE NoUrls

\* An Optional[ClaimResult]: the verdict
NoVerdict == [some |-> FALSE, label |-> "", evidence |-> ""]

Verdict(label, evidence) == [some |-> TRUE, label |-> label, evidence |-> evidence]

UpperCase ==
    [c \in {"A", "B", "C", "D", "E", "F", "G", "H", "I", "J", "K", "L", "M",
            "N", "O", "P", "Q", "R", "S", "T", "U", "V", "W", "X", "Y", "Z"} |->
        CASE c = "A" -> "a" [] c = "B" -> "b" [] c = "C" -> "c" [] c = "D" -> "d"
          [] c = "E" -> "e" [] c = "F" -> "f" [] c = "G" -> "g" [] c = "H" -> "h"
          [] c = "I" -> "i" [] c = "J" -> "j" [] c = "K" -> "k" [] c = "L" -> "l"
          [] c = "M" -> "m" [] c = "N" -> "n" [] c = "O" -> "o" [] c = "P" -> "p"
          [] c = "Q" -> "q" [] c = "R" -> "r" [] c = "S" -> "s" [] c = "T" -> "t"
          [] c = "U" -> "u" [] c = "V" -> "v" [] c = "W" -> "w" [] c = "X" -> "x"
          [] c = "Y" -> "y" [] c = "Z" -> "z"]

\* str.lower(): every upper-case letter replaced, the text taken by halves
RECURSIVE Lower(_)
Lower(s) ==
    IF Len(s) = 0 THEN ""
    ELSE IF Len(s) = 1
         THEN (IF s \in DOMAIN UpperCase THEN UpperCase[s] ELSE s)
         ELSE Lower(SubSeq(s, 1, Len(s) \div 2))
                \o Lower(SubSeq(s, Len(s) \div 2 + 1, Len(s)))

EvidenceKey == "\"evidence\":"

\* The first index from i on that holds no whitespace
SkipSpace(s, i) == i + (Len(SubSeq(s, i, Len(s))) - Len(LStrip(SubSeq(s, i, Len(s)))))

\* s has a quote at open and another one after it
QuotedAt(s, open) ==
    /\ open <= Len(s)
    /\ CharAt(s, open) = "\""
    /\ Contains(SubSeq(s, open + 1, Len(s)), "\"")

\* "evidence":\s*"([^"]*)" matches at i
EvidenceAt(s, i) ==
    /\ StartsWith(SubSeq(s, i, Len(s)), EvidenceKey)
    /\ QuotedAt(s, SkipSpace(s, i + Len(EvidenceKey)))

\* The text between the quote at open and the next one
QuotedText(rest) == SubSeq(rest, 1, Find(rest, "\"") - 1)

FirstEvidence(s, i) ==
    Some(QuotedText(SubSeq(s, SkipSpace(s, i + Len(EvidenceKey)) + 1, Len(s))))

\* re.search(r'"evidence":\s*"([^"]*)"', response): group(1), None without a match
EvidenceMatch(s) ==
    IF \E i \in 1..Len(s) : EvidenceAt(s, i)
    THEN FirstEvidence(s, CHOOSE i \in 1..Len(s) :
                            /\ EvidenceAt(s, i)
                            /\ \A k \in 1..(i - 1) : ~EvidenceAt(s, k))
    ELSE None

\* The dict factcheck_claim returns: Optional, its values JSON values.
NoDict == [some |-> FALSE, label |-> JAbsent, evidence |-> JAbsent]

Dict(label, evidence) == [some |-> TRUE, label |-> label, evidence |-> evidence]

\* The whole response as evidence when no quoted one is found
FallbackEvidence_Whole(response, m) == IF m.some THEN m.text ELSE response

\* evidence_match.group(1) if evidence_match else response[:200]
FallbackEvidence(response, m) ==
    IF m.some THEN m.text ELSE SubSeq(response, 1, Min(200, Len(response)))

\* factcheck_claim giving up where the code falls back on its heuristic
FactcheckFallback_GiveUp(response) == NoDict

\* LocalOpenAIClient.factcheck_claim, second try block: the heuristic fallback
FactcheckFallback(response) ==
    Dict(JStr(IF Contains(Lower(response), "true") THEN "True" ELSE "False"),
         JStr(FallbackEvidence(response, EvidenceMatch(response))))

\* LocalOpenAIClient.factcheck_claim(claim, scraped_content); the page texts of
\* the model are shorter than the 8000 characters _select_relevant_content keeps.
FactcheckClaim(claim, content) ==
    LET resp     == GatewayJudge(claim, content)
        response == MakeRequest(resp)
    IN  IF ~Truthy(response) THEN NoDict
        ELSE IF resp.json.embedded /\ resp.json.valid
             THEN Dict(resp.json.label, resp.json.evidence)
             ELSE FactcheckFallback(response.text)

\* The outcome of a find_answer_in_article call
Answer(v) == [kind |-> "return", value |-> v]

AnswerRaises == [kind |-> "raise", value |-> NoVerdict]

\* find_answer_in_article without its "if result:" test: subscripting None
\* raises in the try block, and result.get raises again in the except branch.
ClaimResultOf_NoNoneTest(result) ==
    IF ~result.some THEN AnswerRaises
    ELSE IF result.label.t = "str" /\ result.evidence.t = "str"
         THEN Answer(Verdict(result.label.s, result.evidence.s))
    ELSE IF result.evidence.t = "absent" THEN Answer(Verdict("False", ""))
    ELSE IF result.evidence.t = "str" THEN Answer(Verdict("False", result.evidence.s))
    ELSE AnswerRaises

\* local_factcheck_full.find_answer_in_article, result being the dict:
\* ClaimResult takes strings only; the except branch builds
\* ClaimResult("False", result.get("evidence", "")), which raises in turn when
\* that evidence is no string.
ClaimResultOf(result) ==
    IF ~result.some THEN Answer(NoVerdict)
    ELSE IF result.label.t = "str" /\ result.evidence.t = "str"
         THEN Answer(Verdict(result.label.s, result.evidence.s))
    ELSE IF result.evidence.t = "absent" THEN Answer(Verdict("False", ""))
    ELSE IF result.evidence.t = "str" THEN Answer(Verdict("False", result.evidence.s))
    ELSE AnswerRaises

\* local_factcheck_full.find_answer_in_article(scraped_content, claim)
LocalFindAnswerInArticle(content, claim) == ClaimResultOf(FactcheckClaim(claim, content))

\* factcheck.find_answer_in_article: model_validate_json, else label "False"
\* with the raw text; None when the call raises or answers no text.
FindAnswerInArticle(content, claim) ==
    LET resp == GatewayJudge(claim, content)
    IN  IF resp.kind # "text" \/ resp.text = "" THEN Answer(NoVerdict)
        ELSE IF resp.json.whole /\ resp.json.valid
                /\ resp.json.label.t = "str" /\ resp.json.evidence.t = "str"
             THEN Answer(Verdict(resp.json.label.s, resp.json.evidence.s))
             ELSE Answer(Verdict("False", resp.text))

\* urllib.parse.quote: the characters of the model's alphabet it escapes
QuoteTable ==
    [c \in {" ", "\"", "#", "%", "&", "'", "(", ")", "+", ",", ":", "=", "?", "{", "}", "\n"} |->
        CASE c = " " -> "%20" [] c = "\"" -> "%22" [] c = "#" -> "%23"
          [] c = "%" -> "%25" [] c = "&" -> "%26" [] c = "'" -> "%27"
          [] c = "(" -> "%28" [] c = ")" -> "%29" [] c = "+" -> "%2B"
          [] c = "," -> "%2C" [] c = ":" -> "%3A" [] c = "=" -> "%3D"
          [] c = "?" -> "%3F" [] c = "{" -> "%7B" [] c = "}" -> "%7D"
          [] c = "\n" -> "%0A"]

\* quote leaving every character as it is
Quote_Identity(s) == s

\* quote(s): letters, digits and "_.-~/" stay, the rest is percent-encoded
RECURSIVE Quote(_)
Quote(s) ==
    IF Len(s) = 0 THEN ""
    ELSE (IF CharAt(s, 1) \in DOMAIN QuoteTable THEN QuoteTable[CharAt(s, 1)]
          ELSE CharAt(s, 1)) \o Quote(SubSeq(s, 2, Len(s)))

\* The link with the evidence appended as it is
BuildTextFragmentLink_Raw(url, result) ==
    IF ~result.some \/ result.evidence = "" THEN url
    ELSE url \o "#:~:text=" \o result.evidence

\* build_text_fragment_link(url, result.evidence if result else None)
BuildTextFragmentLink(url, result) ==
    IF ~result.some \/ result.evidence = "" THEN url
    ELSE url \o "#:~:text=" \o Quote(result.evidence)

----------------------------------------------------------------------------
(* State *)

\* Bounds of the model
MaxClaims == 2

MaxTopN == 2

\* ThreadPoolExecutor(max_workers=min(len(...), 3))
MaxWorkers == 3

VARIABLES
    mode,        \* "original": main.py; "sequential", "parallel", "compare": main_local.py
    topN,        \* --top-n
    extracted,   \* the claims extract_claims_from_query yields for the query
    phase,       \* the process_query running: "original", "sequential" or "parallel"
    mainPc,      \* where the orchestrating caller is
    idx,         \* the claim the for loop of a sequential run is at
    claims,      \* claims, once extracted
    task,        \* per claim: the state of its pipeline
    results,     \* the results list of the running process_query
    seqRun,      \* in a comparison: the results the sequential run ended with
    localClient, \* _local_client, the process-wide handle of the model client
    exitStatus,  \* what process_query returned: -1 before it returns
    sUrl,        \* the scraper alone: its url,
    sWeb,        \*   what the web answers,
    sPc,         \*   "call" before the call, "done" after it,
    sRes,        \*   the outcome of the call and the tiers called
    stCall,      \* one stage alone: the function called and its arguments,
    stPc,        \*   "call" before the call, "done" after it,
    stOut        \*   what the call returned

pipelineVars ==
    <<mode, topN, extracted, phase, mainPc, idx, claims, task, results, seqRun, exitStatus,
      localClient>>

scraperVars == <<sUrl, sWeb, sPc, sRes>>

stageVars == <<stCall, stPc, stOut>>

vars == <<mode, topN, extracted, phase, mainPc, idx, claims, task, results, seqRun,
          exitStatus, localClient, sUrl, sWeb, sPc, sRes, stCall, stPc, stOut>>

Elapsed == "elapsed"

NoTime == "0"

\* The dict with a scrape duration measured on every path
ResultDict_ScrapeTimed(t, urls, result, scrape, factcheck) ==
    [claim |-> t.claim, optimized |-> t.optimized, article_query |-> t.article_query,
     urls |-> urls, result |-> result, total_time |-> Elapsed,
     timing |-> [optimize |-> Elapsed, query |-> Elapsed, urls |-> Elapsed,
                 scrape |-> Elapsed, factcheck |-> factcheck]]

\* The dict process_single_claim returns
ResultDict(t, urls, result, scrape, factcheck) ==
    [claim |-> t.claim, optimized |-> t.optimized, article_query |-> t.article_query,
     urls |-> urls, result |-> result, total_time |-> Elapsed,
     timing |-> [optimize |-> Elapsed, query |-> Elapsed, urls |-> Elapsed,
                 scrape |-> scrape, factcheck |-> factcheck]]

NoDictYet ==
    [claim |-> "", optimized |-> "", article_query |-> "", urls |-> NoUrls,
     result |-> NoVerdict, total_time |-> NoTime,
     timing |-> [optimize |-> NoTime, query |-> NoTime, urls |-> NoTime,
                 scrape |-> NoTime, factcheck |-> NoTime]]

NoRet == [kind |-> "none", value |-> NoDictYet]

Returned(d) == [kind |-> "return", value |-> d]

Raised == [kind |-> "raise", value |-> NoDictYet]

NoContent == [url |-> "", content |-> ""]

\* The pipeline of one claim, before it starts
NewTask(claim) ==
    [claim |-> claim, pc |-> "new", optimized |-> "", article_query |-> "",
     urls |-> NoUrls, futs |-> <<>>, done |-> <<>>, early |-> {}, first |-> 0,
     contents |-> <<>>, judged |-> NoContent,
     result |-> NoVerdict, link |-> "", ret |-> NoRet, taken |-> FALSE]

\* A future of the retrieval pool
NewFuture(url) ==
    [url |-> url, state |-> "pending", out |-> FallThrough, taken |-> FALSE]

ClaimLists == UNION {[1..n -> ClaimTexts] : n \in 0..MaxClaims}

Modes == {"original", "sequential", "parallel", "compare"}

FirstPhase(m) == IF m = "compare" THEN "sequential" ELSE m

\* _local_client: Optional[LocalOpenAIClient] = None
NoClient == "none"

\* local_client = LocalOpenAIClient(args.base_url, args.model) of main
MainClient == "main"

\* LocalOpenAIClient(), the client get_local_openai_client makes
DefaultClient == "default"

\* get_local_openai_client putting a new client in the handle at every call:
\* never the object that was there
GetLocalOpenAIClient_Always(handle) ==
    IF handle = DefaultClient THEN "default, made again" ELSE DefaultClient

\* get_local_openai_client: the handle after the call
GetLocalOpenAIClient(handle) == IF handle = NoClient THEN DefaultClient ELSE handle

\* The handle after a stage of main_local.py that asks for the client; main.py
\* does not use it
ClientAfterUse(ph, handle) ==
    IF ph = "original" THEN handle ELSE GetLocalOpenAIClient(handle)

PipelineIdle ==
    /\ mode = "none" /\ topN = 0 /\ extracted = <<>> /\ phase = "none"
    /\ mainPc = "idle" /\ idx = 0 /\ claims = <<>> /\ task = <<>>
    /\ results = <<>> /\ seqRun = [done |-> FALSE, results |-> <<>>]
    /\ exitStatus = -1
    /\ localClient = NoClient

ScraperIdle ==
    /\ sUrl = "" /\ sWeb = WebOf("") /\ sPc = "idle" /\ sRes = NoScrape

\* No stage is called alone
NoCall == [fn |-> "none"]

StagesIdle ==
    /\ stCall = NoCall /\ stPc = "idle" /\ stOut = None

\* main(): the arguments are parsed, the query is about to be processed
Init ==
    /\ mode \in Modes
    /\ topN \in 0..MaxTopN
    /\ extracted \in ClaimLists
    /\ phase = FirstPhase(mode)
    /\ mainPc = "extract"
    /\ idx = 0
    /\ claims = <<>>
    /\ task = <<>>
    /\ results = <<>>
    /\ seqRun = [done |-> FALSE, results |-> <<>>]
    /\ exitStatus = -1
    /\ localClient = IF mode = "original" THEN NoClient ELSE MainClient
    /\ ScraperIdle
    /\ StagesIdle

Tasks == DOMAIN task

SetTask(c, t) == task' = [task EXCEPT ![c] = t]

Active(t) == t.pc \notin {"new", "queued", "returned", "raised"}

Finished(t) == t.pc \in {"returned", "raised"}

----------------------------------------------------------------------------
(* The orchestrating caller *)

\* claims = extract_claims_from_query(query); if not claims: return 0
ExtractClaims ==
    /\ mainPc = "extract"
    /\ claims' = extracted
    /\ task' = [c \in 1..Len(extracted) |-> NewTask(extracted[c])]
    /\ idx' = 1
    /\ IF Len(extracted) = 0
       THEN mainPc' = "returned" /\ exitStatus' = 0
       ELSE /\ mainPc' = IF phase = "parallel" THEN "submit" ELSE "loop"
            /\ UNCHANGED exitStatus
    /\ localClient' = ClientAfterUse(phase, localClient)
    /\ UNCHANGED <<mode, topN, extracted, phase, results, seqRun, scraperVars, stageVars>>

\* for claim in claims: the body of the loop starts for the next claim
CallTask ==
    /\ mainPc = "loop"
    /\ idx \in Tasks
    /\ task[idx].pc = "new"
    /\ SetTask(idx, [task[idx] EXCEPT !.pc = "optimize"])
    /\ UNCHANGED <<mode, topN, extracted, phase, mainPc, idx, claims, results, seqRun,
                   exitStatus, scraperVars, stageVars, localClient>>

\* The loop putting each result in front of the earlier ones
LoopNext_Prepend ==
    /\ mainPc = "loop"
    /\ idx \in Tasks
    /\ Finished(task[idx])
    /\ ~task[idx].taken
    /\ SetTask(idx, [task[idx] EXCEPT !.taken = TRUE])
    /\ IF task[idx].pc = "raised"
       THEN mainPc' = "crashed" /\ UNCHANGED <<idx, results>>
       ELSE /\ idx' = idx + 1
            /\ results' = IF phase = "sequential"
                          THEN <<task[idx].ret.value>> \o results
                          ELSE results
            /\ UNCHANGED mainPc
    /\ UNCHANGED <<mode, topN, extracted, phase, claims, seqRun, exitStatus, scraperVars, stageVars, localClient>>

\* The body of the loop ends: results.append(result) in main_local.py, nothing
\* to keep in main.py; an exception of the body leaves process_query.
LoopNext ==
    /\ mainPc = "loop"
    /\ idx \in Tasks
    /\ Finished(task[idx])
    /\ ~task[idx].taken
    /\ SetTask(idx, [task[idx] EXCEPT !.taken = TRUE])
    /\ IF task[idx].pc = "raised"
       THEN mainPc' = "crashed" /\ UNCHANGED <<idx, results>>
       ELSE /\ idx' = idx + 1
            /\ results' = IF phase = "sequential"
                          THEN Append(results, task[idx].ret.value)
                          ELSE results
            /\ UNCHANGED mainPc
    /\ UNCHANGED <<mode, topN, extracted, phase, claims, seqRun, exitStatus, scraperVars, stageVars, localClient>>

\* The loop is over: the summary is printed, return 0
LoopEnd ==
    /\ mainPc = "loop"
    /\ idx = Len(claims) + 1
    /\ mainPc' = "returned"
    /\ exitStatus' = 0
    /\ UNCHANGED <<mode, topN, extracted, phase, idx, claims, task, results, seqRun,
                   scraperVars, stageVars, localClient>>

\* executor.submit(process_single_claim, claim, top_n_urls) for every claim
SubmitClaims ==
    /\ mainPc = "submit"
    /\ task' = [c \in Tasks |-> [task[c] EXCEPT !.pc = "queued"]]
    /\ mainPc' = "collect"
    /\ UNCHANGED <<mode, topN, extracted, phase, idx, claims, results, seqRun,
                   exitStatus, scraperVars, stageVars, localClient>>

\* A claim pool with a worker for every claim
ClaimPoolWidth_PerClaim == Len(claims)

\* max_workers of the claim pool
ClaimPoolWidth == Min(Len(claims), MaxWorkers)

\* A worker of the claim pool takes the next queued claim
WorkerStart(c) ==
    /\ phase = "parallel"
    /\ task[c].pc = "queued"
    /\ \A d \in 1..(c - 1) : task[d].pc # "queued"
    /\ Cardinality({d \in Tasks : Active(task[d])}) < ClaimPoolWidth
    /\ SetTask(c, [task[c] EXCEPT !.pc = "optimize"])
    /\ UNCHANGED <<mode, topN, extracted, phase, mainPc, idx, claims, results, seqRun,
                   exitStatus, scraperVars, stageVars, localClient>>

\* What the except branch of the as_completed loop adds to results: nothing.
ResultsAfterFailure(rs, t) == rs

\* The as_completed loop without its except branch: the task's exception leaves
\* process_query_parallel.
TakeClaim_NoCatch(c) ==
    /\ mainPc = "collect"
    /\ Finished(task[c])
    /\ ~task[c].taken
    /\ SetTask(c, [task[c] EXCEPT !.taken = TRUE])
    /\ IF task[c].ret.kind = "return"
       THEN results' = Append(results, task[c].ret.value) /\ UNCHANGED mainPc
       ELSE mainPc' = "crashed" /\ UNCHANGED results
    /\ UNCHANGED <<mode, topN, extracted, phase, idx, claims, seqRun,
                   exitStatus, scraperVars, stageVars, localClient>>

\* for future in as_completed(future_to_claim): result = future.result();
\* results.append(result); except Exception: print
TakeClaim(c) ==
    /\ mainPc = "collect"
    /\ Finished(task[c])
    /\ ~task[c].taken
    /\ SetTask(c, [task[c] EXCEPT !.taken = TRUE])
    /\ results' = IF task[c].ret.kind = "return"
                  THEN Append(results, task[c].ret.value)
                  ELSE ResultsAfterFailure(results, task[c])
    /\ UNCHANGED <<mode, topN, extracted, phase, mainPc, idx, claims, seqRun,
                   exitStatus, scraperVars, stageVars, localClient>>

\* The parallel run returning 1 when some claim ended without a verdict
Summarize_OneOnNoVerdict ==
    /\ mainPc = "collect"
    /\ \A c \in Tasks : task[c].taken
    /\ mainPc' = "returned"
    /\ exitStatus' = IF \E i \in 1..Len(results) : ~results[i].result.some
                     THEN 1 ELSE 0
    /\ UNCHANGED <<mode, topN, extracted, phase, idx, claims, task, results, seqRun,
                   scraperVars, stageVars, localClient>>

\* Every future was taken, the pool is shut down, the summary and the timing
\* breakdown are printed, return 0
Summarize ==
    /\ mainPc = "collect"
    /\ \A c \in Tasks : task[c].taken
    /\ mainPc' = "returned"
    /\ exitStatus' = 0
    /\ UNCHANGED <<mode, topN, extracted, phase, idx, claims, task, results, seqRun,
                   scraperVars, stageVars, localClient>>

\* main(), --compare: process_query(parallel=False), then process_query(parallel=True)
CompareNext ==
    /\ mode = "compare"
    /\ phase = "sequential"
    /\ mainPc = "returned"
    /\ seqRun' = [done |-> TRUE, results |-> results]
    /\ phase' = "parallel"
    /\ mainPc' = "extract"
    /\ idx' = 0
    /\ claims' = <<>>
    /\ task' = <<>>
    /\ results' = <<>>
    /\ exitStatus' = -1
    /\ UNCHANGED <<mode, topN, extracted, scraperVars, stageVars, localClient>>

----------------------------------------------------------------------------
(* The pipeline of one claim: process_single_claim in main_local.py, the   *)
(* body of the loop of process_query in main.py                            *)

others == <<mode, topN, extracted, phase, mainPc, idx, claims, results, seqRun,
            exitStatus, scraperVars, stageVars, localClient>>

\* What a stage that asks for the model client leaves alone
othersOfClientCall ==
    <<mode, topN, extracted, phase, mainPc, idx, claims, results, seqRun,
      exitStatus, scraperVars, stageVars>>

\* optimized = optimize_claim(claim)
Optimize(c) ==
    /\ task[c].pc = "optimize"
    /\ SetTask(c, [task[c] EXCEPT
            !.optimized = IF phase = "original" THEN OptimizeClaim(task[c].claim)
                          ELSE LocalOptimizeClaim(task[c].claim),
            !.pc = "article"])
    /\ localClient' = ClientAfterUse(phase, localClient)
    /\ UNCHANGED othersOfClientCall

\* get_query_for_wiki_article called with the optimized claim
ArticleInput_Optimized(t) == t.optimized

\* What get_query_for_wiki_article is called with: the claim as extracted.
ArticleInput(t) == t.claim

\* article_query = get_query_for_wiki_article(claim)
ArticleQuery(c) ==
    /\ task[c].pc = "article"
    /\ SetTask(c, [task[c] EXCEPT
            !.article_query = IF phase = "original"
                              THEN GetQueryForWikiArticle(ArticleInput(task[c]))
                              ELSE LocalGetWikiArticleName(ArticleInput(task[c])),
            !.pc = "search"])
    /\ localClient' = ClientAfterUse(phase, localClient)
    /\ UNCHANGED othersOfClientCall

\* "if urls is None" in the place of "if not urls"
NoUrlFound_NoneOnly(urls) == ~urls.some

\* if not urls
NoUrlFound(urls) == ~urls.some \/ Len(urls.v) = 0

\* urls = get_first_n_results_urls(article_query, top_n_urls); if not urls:
\* continue (main.py) / return the dict with urls None (main_local.py)
Search(c) ==
    /\ task[c].pc = "search"
    /\ LET urls == GetFirstNResultsUrls(task[c].article_query, topN)
           t    == [task[c] EXCEPT !.urls = urls]
       IN  IF NoUrlFound(urls)
           THEN SetTask(c, [t EXCEPT
                    !.pc = "returned",
                    !.ret = IF phase = "original" THEN NoRet
                            ELSE Returned(ResultDict(t, NoUrls, NoVerdict, NoTime, NoTime))])
           ELSE SetTask(c, [t EXCEPT !.pc = "scrape"])
    /\ UNCHANGED others

\* The URLs process_single_claim submits to the retrieval pool: all of them.
UrlsToScrape(urls) == urls

\* with ThreadPoolExecutor(max_workers=min(len(urls), 3)) as executor:
\*     future_to_url = {executor.submit(scrape_url, url): url for url in urls}
SubmitScrapes(c) ==
    /\ phase # "original"
    /\ task[c].pc = "scrape"
    /\ LET urls == UrlsToScrape(task[c].urls.v)
       IN  SetTask(c, [task[c] EXCEPT
                !.futs = [i \in 1..Len(urls) |-> NewFuture(urls[i])],
                !.pc = "collect"])
    /\ UNCHANGED others

\* max_workers of the retrieval pool of a claim
ScrapePoolWidth(t) == Min(Len(t.futs), MaxWorkers)

\* A worker of the retrieval pool takes the next pending URL
StartScrape(c, i) ==
    /\ task[c].pc = "collect"
    /\ i \in DOMAIN task[c].futs
    /\ task[c].futs[i].state = "pending"
    /\ \A j \in 1..(i - 1) : task[c].futs[j].state # "pending"
    /\ Cardinality({j \in DOMAIN task[c].futs : task[c].futs[j].state = "running"})
          < ScrapePoolWidth(task[c])
    /\ SetTask(c, [task[c] EXCEPT !.futs[i].state = "running"])
    /\ UNCHANGED others

\* scrape_url(url) returns in its worker
FinishScrape(c, i) ==
    /\ task[c].pc = "collect"
    /\ i \in DOMAIN task[c].futs
    /\ task[c].futs[i].state = "running"
    /\ LET url == task[c].futs[i].url
           out == ScrapeWikipediaContent(url, WebOf(url)).out
       IN  SetTask(c, [task[c] EXCEPT
                !.futs[i].state = "finished",
                !.futs[i].out = out,
                !.done = Append(@, i),
                !.first = IF @ = 0 /\ out.kind = "return" /\ Truthy(out.value)
                          THEN i ELSE @])
    /\ UNCHANGED others

\* The futures that had completed when as_completed was called: those that are
\* finished when the loop takes its first future.
EarlyOf(t) ==
    IF \E j \in DOMAIN t.futs : t.futs[j].taken
    THEN t.early
    ELSE {j \in DOMAIN t.futs : t.futs[j].state = "finished"}

\* The completed futures the loop has not taken, in the order of their
\* completion
Waited(t) == t.done

\* The same, once the loop has taken future i
Without(seq, i) == SelectSeq(seq, LAMBDA j : j # i)

\* as_completed yields the futures that had completed when it was called, in
\* an order of its own, and then the others as they complete
NextCompleted(t, i) ==
    IF EarlyOf(t) # {}
    THEN i \in EarlyOf(t)
    ELSE i = Head(Waited(t))

\* The as_completed loop submitting again a retrieval that gave no content
TakeScrape_Retry(c, i) ==
    /\ task[c].pc = "collect"
    /\ i \in DOMAIN task[c].futs
    /\ task[c].futs[i].state = "finished"
    /\ ~task[c].futs[i].taken
    /\ NextCompleted(task[c], i)
    /\ LET f == task[c].futs[i]
       IN  IF f.out.kind = "return" /\ Truthy(f.out.value)
           THEN SetTask(c, [task[c] EXCEPT
                    !.futs[i].taken = TRUE,
                    !.early = EarlyOf(task[c]) \ {i},
                    !.done = Without(@, i),
                    !.contents = Append(@, [url |-> f.url, content |-> f.out.value.text])])
           ELSE SetTask(c, [task[c] EXCEPT
                    !.futs[i] = NewFuture(f.url),
                    !.early = EarlyOf(task[c]) \ {i},
                    !.done = Without(@, i)])
    /\ UNCHANGED others

\* for future in as_completed(future_to_url): content = future.result();
\* if content: contents.append((url, content)); except Exception: print
TakeScrape(c, i) ==
    /\ task[c].pc = "collect"
    /\ i \in DOMAIN task[c].futs
    /\ task[c].futs[i].state = "finished"
    /\ ~task[c].futs[i].taken
    /\ NextCompleted(task[c], i)
    /\ LET f == task[c].futs[i]
       IN  SetTask(c, [task[c] EXCEPT
                !.futs[i].taken = TRUE,
                !.early = EarlyOf(task[c]) \ {i},
                !.done = Without(@, i),
                !.contents = IF f.out.kind = "return" /\ Truthy(f.out.value)
                             THEN Append(@, [url |-> f.url, content |-> f.out.value.text])
                             ELSE @])
    /\ UNCHANGED others

\* Leaving the retrieval pool at the first content, the other futures unawaited
ScrapesJoined_FirstSuccess(t) ==
    Len(t.contents) > 0 \/ \A i \in DOMAIN t.futs : t.futs[i].taken

\* When the as_completed loop and the with block of the retrieval pool are left:
\* every future was yielded (shutdown(wait=True) then finds every worker idle).
ScrapesJoined(t) == \A i \in DOMAIN t.futs : t.futs[i].taken

\* The with block is left, without the test of contents: the judge stage
\* follows even when no retrieval gave content.
JoinScrapes_NoEmptyTest(c) ==
    /\ task[c].pc = "collect"
    /\ ScrapesJoined(task[c])
    /\ SetTask(c, [task[c] EXCEPT
            !.pc = "judge",
            !.judged = IF Len(task[c].contents) = 0
                       THEN [url |-> task[c].urls.v[1], content |-> ""]
                       ELSE task[c].contents[1]])
    /\ UNCHANGED others

\* The with block is left; if not contents: return the dict without a verdict;
\* url, content = contents[0]
JoinScrapes(c) ==
    /\ task[c].pc = "collect"
    /\ ScrapesJoined(task[c])
    /\ IF Len(task[c].contents) = 0
       THEN SetTask(c, [task[c] EXCEPT
                !.pc = "returned",
                !.ret = Returned(ResultDict(task[c], task[c].urls, NoVerdict,
                                            Elapsed, NoTime))])
       ELSE SetTask(c, [task[c] EXCEPT
                !.pc = "judge",
                !.judged = task[c].contents[1]])
    /\ UNCHANGED others

\* main.py: content = scrape_wikipedia_content(urls[0]); if not content: continue
ScrapeFirstUrl(c) ==
    /\ phase = "original"
    /\ task[c].pc = "scrape"
    /\ LET url == task[c].urls.v[1]
           out == ScrapeWikipediaContent(url, WebOf(url)).out
       IN  IF out.kind = "raise"
           THEN SetTask(c, [task[c] EXCEPT !.pc = "raised", !.ret = Raised])
           ELSE IF Truthy(out.value)
           THEN SetTask(c, [task[c] EXCEPT
                    !.pc = "judge",
                    !.judged = [url |-> url, content |-> out.value.text]])
           ELSE SetTask(c, [task[c] EXCEPT !.pc = "returned"])
    /\ UNCHANGED others

\* result = find_answer_in_article(content, claim)
FactCheck(c) ==
    /\ task[c].pc = "judge"
    /\ LET a == IF phase = "original"
                THEN FindAnswerInArticle(task[c].judged.content, task[c].claim)
                ELSE LocalFindAnswerInArticle(task[c].judged.content, task[c].claim)
       IN  IF a.kind = "raise"
           THEN SetTask(c, [task[c] EXCEPT !.pc = "raised", !.ret = Raised])
           ELSE SetTask(c, [task[c] EXCEPT !.pc = "link", !.result = a.value])
    /\ localClient' = ClientAfterUse(phase, localClient)
    /\ UNCHANGED othersOfClientCall

\* The link built from the URL the search ranked first
BuildLink_FirstUrl(c) ==
    /\ task[c].pc = "link"
    /\ SetTask(c, [task[c] EXCEPT
            !.link = BuildTextFragmentLink(task[c].urls.v[1], task[c].result),
            !.pc = "returned",
            !.ret = IF phase = "original" THEN NoRet
                    ELSE Returned(ResultDict(task[c], task[c].urls, task[c].result,
                                             Elapsed, Elapsed))])
    /\ UNCHANGED others

\* link = build_text_fragment_link(url, result.evidence if result else None);
\* the end of the body (main.py) / return the dict (main_local.py)
BuildLink(c) ==
    /\ task[c].pc = "link"
    /\ SetTask(c, [task[c] EXCEPT
            !.link = BuildTextFragmentLink(task[c].judged.url, task[c].result),
            !.pc = "returned",
            !.ret = IF phase = "original" THEN NoRet
                    ELSE Returned(ResultDict(task[c], task[c].urls, task[c].result,
                                             Elapsed, Elapsed))])
    /\ UNCHANGED others

Next ==
    \/ ExtractClaims
    \/ CallTask
    \/ LoopNext
    \/ LoopEnd
    \/ SubmitClaims
    \/ Summarize
    \/ CompareNext
    \/ \E c \in Tasks :
        \/ WorkerStart(c)
        \/ TakeClaim(c)
        \/ Optimize(c)
        \/ ArticleQuery(c)
        \/ Search(c)
        \/ SubmitScrapes(c)
        \/ JoinScrapes(c)
        \/ ScrapeFirstUrl(c)
        \/ FactCheck(c)
        \/ BuildLink(c)
        \/ \E i \in 1..MaxTopN :
            \/ StartScrape(c, i)
            \/ FinishScrape(c, i)
            \/ TakeScrape(c, i)

Spec == Init /\ [][Next]_vars

----------------------------------------------------------------------------
(* The two pools: process_query_parallel alone, over more claims than the  *)
(* claim pool has workers and more URLs than a retrieval pool has          *)

MaxPoolClaims == 4

MaxPoolUrls == 4

\* The claims of a query: one whose search answers five links, at any place
\* among claims whose search answers none
PoolClaimLists ==
    {[c \in 1..MaxPoolClaims |-> IF c = r THEN ClaimRome ELSE ClaimMoon] :
        r \in 1..MaxPoolClaims}

\* main(), parallel: the query gives MaxPoolClaims claims
InitPool ==
    /\ mode = "parallel"
    /\ topN \in {1, MaxPoolUrls}
    /\ extracted \in PoolClaimLists
    /\ phase = "parallel"
    /\ mainPc = "extract"
    /\ idx = 0
    /\ claims = <<>>
    /\ task = <<>>
    /\ results = <<>>
    /\ seqRun = [done |-> FALSE, results |-> <<>>]
    /\ exitStatus = -1
    /\ localClient = IF mode = "original" THEN NoClient ELSE MainClient
    /\ ScraperIdle
    /\ StagesIdle

NextPool ==
    \/ ExtractClaims
    \/ SubmitClaims
    \/ Summarize
    \/ \E c \in Tasks :
        \/ WorkerStart(c)
        \/ TakeClaim(c)
        \/ Optimize(c)
        \/ ArticleQuery(c)
        \/ Search(c)
        \/ SubmitScrapes(c)
        \/ JoinScrapes(c)
        \/ FactCheck(c)
        \/ BuildLink(c)
        \/ \E i \in 1..MaxPoolUrls :
            \/ StartScrape(c, i)
            \/ FinishScrape(c, i)
            \/ TakeScrape(c, i)

SpecPool == InitPool /\ [][NextPool]_vars

----------------------------------------------------------------------------
(* Two pipelines of one claim, the optimize stage answering each its own   *)
(* way                                                                     *)

\* What the gateway may answer to the optimize prompt
OptimizeAnswers ==
    {GwText(ClaimAda, NoJson), GwText(ClaimMars, NoJson), GwNone, GwExc}

\* optimized = optimize_claim(claim), the gateway answering resp
OptimizeOn(c, resp) ==
    /\ task[c].pc = "optimize"
    /\ SetTask(c, [task[c] EXCEPT
            !.optimized = IF phase = "original" THEN OptimizeClaimOn(resp, task[c].claim)
                          ELSE LocalOptimizeClaimOn(resp, task[c].claim),
            !.pc = "article"])
    /\ localClient' = ClientAfterUse(phase, localClient)
    /\ UNCHANGED othersOfClientCall

TwinClaimLists == {<<claim, claim>> : claim \in ClaimTexts}

InitTwin ==
    /\ mode \in {"original", "sequential", "parallel"}
    /\ topN \in 0..MaxTopN
    /\ extracted \in TwinClaimLists
    /\ phase = FirstPhase(mode)
    /\ mainPc = "extract"
    /\ idx = 0
    /\ claims = <<>>
    /\ task = <<>>
    /\ results = <<>>
    /\ seqRun = [done |-> FALSE, results |-> <<>>]
    /\ exitStatus = -1
    /\ localClient = IF mode = "original" THEN NoClient ELSE MainClient
    /\ ScraperIdle
    /\ StagesIdle

NextTwin ==
    \/ ExtractClaims
    \/ CallTask
    \/ LoopNext
    \/ LoopEnd
    \/ SubmitClaims
    \/ Summarize
    \/ \E c \in Tasks :
        \/ WorkerStart(c)
        \/ TakeClaim(c)
        \/ \E resp \in OptimizeAnswers : OptimizeOn(c, resp)
        \/ ArticleQuery(c)
        \/ Search(c)
        \/ SubmitScrapes(c)
        \/ JoinScrapes(c)
        \/ ScrapeFirstUrl(c)
        \/ FactCheck(c)
        \/ BuildLink(c)
        \/ \E i \in 1..MaxTopN :
            \/ StartScrape(c, i)
            \/ FinishScrape(c, i)
            \/ TakeScrape(c, i)

SpecTwin == InitTwin /\ [][NextTwin]_vars

----------------------------------------------------------------------------
(* The scraper alone: one call of scrape_wikipedia_content, for every URL  *)
(* and every answer of the web                                             *)

InitScrape ==
    /\ sUrl \in ScrapeUrls
    /\ sWeb \in Webs
    /\ sPc = "call"
    /\ sRes = NoScrape
    /\ PipelineIdle
    /\ StagesIdle

CallScrape ==
    /\ sPc = "call"
    /\ sRes' = ScrapeWikipediaContent(sUrl, sWeb)
    /\ sPc' = "done"
    /\ UNCHANGED <<sUrl, sWeb, pipelineVars, stageVars>>

NextScrape == CallScrape

SpecScrape == InitScrape /\ [][NextScrape]_vars

----------------------------------------------------------------------------
(* The stages alone: one call of one stage function, for every argument of *)
(* the sets below                                                          *)

\* optimize_claim and get_query_for_wiki_article, of claims.py and of
\* local_claims.py
ClaimCalls ==
    [fn : {"optimize_claim", "get_query_for_wiki_article"},
     module : {"claims", "local_claims"},
     claim : ClaimTexts]

\* find_answer_in_article, of factcheck.py and of local_factcheck_full.py
JudgeCalls ==
    [fn : {"find_answer_in_article"},
     module : {"factcheck", "local_factcheck_full"},
     claim : ClaimTexts \cup {ClaimVenus, ClaimEarth, ClaimJupiter, ClaimSaturn,
                             ClaimNeptune, ClaimUranus, ClaimMercury},
     content : {TextAda, TextTuring}]

Evidences ==
    { "", "born on 10 December 1815", "x",
      "50% of \"C++\" & more, #1: {a=b}?",
      "line one\nline two",
      "AC/DC-1_2.3~4",
      "it's (so)" }

\* build_text_fragment_link(url, result.evidence if result else None)
LinkCalls ==
    [fn : {"build_text_fragment_link"},
     url : {UrlAda, UrlTuringBlog},
     result : {NoVerdict} \cup {Verdict("True", e) : e \in Evidences}]

\* get_first_n_results_urls(query, n)
SearchCalls ==
    [fn : {"get_first_n_results_urls"},
     query : {"Ada Lovelace", "Alan Turing", "Atlantis", "Paris", "Pi", "", "Nothing"},
     n : 0..(MaxTopN + 2)]

Titles ==
    {"Ada_Lovelace", "Alan Turing", "C++", "AC/DC", "50% (film)", "What?", "A#1"}

\* The URL of the article of a title: the title percent-encoded by quote
WikiUrlOf(title) == "https://en.wikipedia.org/wiki/" \o Quote(title)

\* _extract_title_from_wiki_url(url), url built from a title
TitleCalls ==
    {[fn |-> "_extract_title_from_wiki_url", title |-> t, url |-> WikiUrlOf(t)] :
        t \in Titles}

InitStages ==
    /\ stCall \in ClaimCalls \cup JudgeCalls \cup LinkCalls \cup SearchCalls \cup TitleCalls
    /\ stPc = "call"
    /\ stOut = None
    /\ PipelineIdle
    /\ ScraperIdle

\* optimized = optimize_claim(claim)
CallOptimizeClaim ==
    /\ stPc = "call"
    /\ stCall.fn = "optimize_claim"
    /\ stOut' = IF stCall.module = "claims" THEN OptimizeClaim(stCall.claim)
                ELSE LocalOptimizeClaim(stCall.claim)
    /\ stPc' = "done"
    /\ UNCHANGED <<stCall, pipelineVars, scraperVars>>

\* article_query = get_query_for_wiki_article(claim)
CallGetQueryForWikiArticle ==
    /\ stPc = "call"
    /\ stCall.fn = "get_query_for_wiki_article"
    /\ stOut' = IF stCall.module = "claims" THEN GetQueryForWikiArticle(stCall.claim)
                ELSE LocalGetWikiArticleName(stCall.claim)
    /\ stPc' = "done"
    /\ UNCHANGED <<stCall, pipelineVars, scraperVars>>

\* result = find_answer_in_article(content, claim)
CallFindAnswerInArticle ==
    /\ stPc = "call"
    /\ stCall.fn = "find_answer_in_article"
    /\ stOut' = IF stCall.module = "factcheck"
                THEN FindAnswerInArticle(stCall.content, stCall.claim)
                ELSE LocalFindAnswerInArticle(stCall.content, stCall.claim)
    /\ stPc' = "done"
    /\ UNCHANGED <<stCall, pipelineVars, scraperVars>>

\* link = build_text_fragment_link(url, result.evidence if result else None)
CallBuildTextFragmentLink ==
    /\ stPc = "call"
    /\ stCall.fn = "build_text_fragment_link"
    /\ stOut' = BuildTextFragmentLink(stCall.url, stCall.result)
    /\ stPc' = "done"
    /\ UNCHANGED <<stCall, pipelineVars, scraperVars>>

\* urls = get_first_n_results_urls(query, n)
CallGetFirstNResultsUrls ==
    /\ stPc = "call"
    /\ stCall.fn = "get_first_n_results_urls"
    /\ stOut' = GetFirstNResultsUrls(stCall.query, stCall.n)
    /\ stPc' = "done"
    /\ UNCHANGED <<stCall, pipelineVars, scraperVars>>

\* title = _extract_title_from_wiki_url(url)
CallExtractTitle ==
    /\ stPc = "call"
    /\ stCall.fn = "_extract_title_from_wiki_url"
    /\ stOut' = ExtractTitleFromWikiUrl(stCall.url)
    /\ stPc' = "done"
    /\ UNCHANGED <<stCall, pipelineVars, scraperVars>>

NextStages ==
    \/ CallOptimizeClaim
    \/ CallGetQueryForWikiArticle
    \/ CallFindAnswerInArticle
    \/ CallBuildTextFragmentLink
    \/ CallGetFirstNResultsUrls
    \/ CallExtractTitle

SpecStages == InitStages /\ [][NextStages]_vars

----------------------------------------------------------------------------
(* Properties of scrape_wikipedia_content, checked under SpecScrape *)

ScrapeDone == sPc = "done"

TitleExtracted == Truthy(ExtractTitleFromWikiUrl(sUrl))

\* The tiers the finished call invoked
Called(tier) == \E i \in DOMAIN sRes.calls : sRes.calls[i] = tier

\* The plain-text GET answered 200 with a body that is not all whitespace
PlainBodyNonEmpty ==
    /\ sWeb.plain.kind = "resp"
    /\ sWeb.plain.status = 200
    /\ \E i \in 1..Len(sWeb.plain.text) : CharAt(sWeb.plain.text, i) \notin Whitespace

\* C1: when a title is extracted and the plain-text tier returns a non-empty
\* body, scrape_wikipedia_content returns that body unchanged and calls neither
\* the mobile-HTML tier nor the generic tier.
C1_PlainShortCircuit ==
    (ScrapeDone /\ TitleExtracted /\ PlainBodyNonEmpty) =>
        /\ sRes.out = Return(Some(sWeb.plain.text))
        /\ sRes.calls = <<"plain">>

\* A call that returned a plain-text body with surrounding whitespace as it came
C1_Witness ==
    /\ ScrapeDone /\ TitleExtracted /\ PlainBodyNonEmpty
    /\ sWeb.plain.text = " Plain text\n"
    /\ sRes.out.value.text = " Plain text\n"
    /\ ~Called("mobile") /\ ~Called("generic")

\* The generic GET answered with an HTTP error status
GenericHttpError == sWeb.generic.kind = "resp" /\ sWeb.generic.status >= 400

\* C7: scrape_wikipedia_content never raises: whatever the tiers answer it
\* returns page text or absent, and when the generic tier is reached and gets
\* an HTTP error status the call returns absent.
C7_ScrapeNeverRaises ==
    ScrapeDone =>
        /\ sRes.out.kind = "return"
        /\ sRes.out.value = None \/ Truthy(sRes.out.value)
        /\ (Called("generic") /\ GenericHttpError) => sRes.out.value = None

\* A call that reached the generic tier, got a 503 and returned absent
C7_Witness ==
    /\ ScrapeDone /\ Called("generic")
    /\ sWeb.generic.kind = "resp" /\ sWeb.generic.status = 503
    /\ sRes.out = Return(None)

\* The URLs of ScrapeUrls whose host is not the encyclopedia, whose path is not
\* /wiki/<title>, or that do not parse
NoTitleUrls ==
    { "https://en.wikipedia.org/w/index.php?title=Ada",
      "https://en.wikipedia.org/wiki/",
      "https://en.wikipedia.org/wiki",
      "https://example.com/wiki/Ada_Lovelace",
      "https://example.com/page",
      "http://[::1/wiki/Ada" }

\* C8: for a URL that gives no title, scrape_wikipedia_content calls the generic
\* tier only, and returns what that tier returned (absent when it raised).
C8_NoTitleGenericOnly ==
    (ScrapeDone /\ sUrl \in NoTitleUrls) =>
        /\ ~TitleExtracted
        /\ sRes.calls = <<"generic">>
        /\ sRes.out = IF GenericHtmlScrape(sUrl, sWeb.generic).kind = "return"
                      THEN GenericHtmlScrape(sUrl, sWeb.generic)
                      ELSE Return(None)

\* A /wiki/ page of another host, scraped by the generic tier alone
C8_Witness ==
    /\ ScrapeDone
    /\ sUrl = "https://example.com/wiki/Ada_Lovelace"
    /\ sRes.calls = <<"generic">>
    /\ Truthy(sRes.out.value)

\* The plain-text tier found nothing: an exception, a status other than 200 or a
\* blank body
PlainFails ==
    \/ sWeb.plain.kind = "exc"
    \/ sWeb.plain.status # 200
    \/ \A i \in 1..Len(sWeb.plain.text) : CharAt(sWeb.plain.text, i) \in Whitespace

\* The mobile-HTML tier returned non-empty text
MobileHasText ==
    /\ WikiRestMobileHtml(ExtractTitleFromWikiUrl(sUrl).text, sWeb.mobile).kind = "return"
    /\ Truthy(WikiRestMobileHtml(ExtractTitleFromWikiUrl(sUrl).text, sWeb.mobile).value)

\* C9: when a title is extracted and the plain-text tier fails, the failure is
\* swallowed and the mobile-HTML tier is called; when that returns non-empty
\* text, the text is the result and the generic tier is not called.
C9_MobileFallback ==
    (ScrapeDone /\ TitleExtracted /\ PlainFails) =>
        /\ Called("mobile")
        /\ MobileHasText =>
            /\ sRes.out = WikiRestMobileHtml(ExtractTitleFromWikiUrl(sUrl).text, sWeb.mobile)
            /\ sRes.calls = <<"plain", "mobile">>

\* The plain-text GET raised, and the call returned the mobile page's text
C9_Witness ==
    /\ ScrapeDone /\ TitleExtracted
    /\ sWeb.plain.kind = "exc"
    /\ MobileHasText
    /\ sRes.calls = <<"plain", "mobile">>
    /\ Truthy(sRes.out.value)

----------------------------------------------------------------------------
(* Properties of the orchestration, checked under Spec *)

Range(seq) == {seq[i] : i \in DOMAIN seq}

ParallelReturned == phase = "parallel" /\ mainPc = "returned"

\* C2 (as stated): process_query_parallel on N claims ends with exactly N
\* results, and their set is the set the sequential run of the same claims
\* ended with.
C2_ParallelMatchesSequential ==
    ParallelReturned =>
        /\ Len(results) = Len(claims)
        /\ seqRun.done => Range(results) = Range(seqRun.results)

\* The task of claim d is running and its next step can be taken
CanStep(d) ==
    \/ task[d].pc \in {"optimize", "article", "search", "scrape", "judge", "link"}
    \/ /\ task[d].pc = "collect"
       /\ \/ ENABLED JoinScrapes(d)
          \/ \E i \in DOMAIN task[d].futs :
                \/ task[d].futs[i].state = "running"
                \/ ENABLED StartScrape(d, i)
                \/ ENABLED TakeScrape(d, i)

\* C3: in the concurrent run the batch never ends with an exception; when
\* process_query_parallel has returned, with 0, every task has run to its end
\* and was collected, and the dict of every task that returned is in results,
\* whatever tasks raised.  While it collects and a task has raised, the run is
\* not stuck: it can return, collect a finished task, start a queued one, or a
\* running task can take its next step.
C3_FailureDoesNotCrashBatch ==
    phase = "parallel" =>
        /\ mainPc # "crashed"
        /\ (mainPc = "collect" /\ \E c \in Tasks : task[c].pc = "raised") =>
            \/ ENABLED Summarize
            \/ \E d \in Tasks :
                 ENABLED TakeClaim(d) \/ ENABLED WorkerStart(d) \/ CanStep(d)
        /\ mainPc = "returned" =>
            /\ exitStatus = 0
            /\ \A c \in Tasks :
                /\ Finished(task[c]) /\ task[c].taken
                /\ task[c].ret.kind = "return" => task[c].ret.value \in Range(results)

\* The concurrent run returned 0 although a task raised, and holds the verdict
\* of another claim
C3_Witness ==
    /\ ParallelReturned /\ exitStatus = 0
    /\ \E c, d \in Tasks :
        /\ task[c].pc = "raised"
        /\ task[d].ret.kind = "return"
        /\ task[d].ret.value.result.some
        /\ task[d].ret.value \in Range(results)

\* C4 (as stated): when process_query_parallel has returned, results has an
\* entry for every submitted claim, the claims whose task raised included.
C4_FailedClaimHasResult ==
    ParallelReturned =>
        \A c \in Tasks : \E i \in DOMAIN results : results[i].claim = task[c].claim

\* A retrieval of the claim is still queued or running
InFlight(t) == \E i \in DOMAIN t.futs : t.futs[i].state \in {"pending", "running"}

\* A retrieval of the claim has finished with page text
SomeSucceeded(t) ==
    \E i \in DOMAIN t.futs :
        /\ t.futs[i].state = "finished"
        /\ t.futs[i].out.kind = "return"
        /\ Truthy(t.futs[i].out.value)

\* C5 (as stated): once one retrieval of a claim has succeeded, the judge
\* stage can start, whatever retrievals are still in flight.
C5_JudgeAfterFirstSuccess ==
    \A c \in Tasks :
        (task[c].pc = "collect" /\ SomeSucceeded(task[c]) /\ InFlight(task[c]))
            => ENABLED JoinScrapes(c)

\* C5 (amended): the judge stage starts only when every retrieval submitted for
\* the claim has finished and was collected; it judges the content that was
\* collected first, which is one of the successful retrievals.
C5_JudgeAfterAllRetrievals ==
    \A c \in Tasks :
        /\ (task[c].pc = "collect" /\ InFlight(task[c])) => ~ENABLED JoinScrapes(c)
        /\ (phase # "original" /\ task[c].pc \in {"judge", "link"}) =>
            /\ \A i \in DOMAIN task[c].futs :
                 task[c].futs[i].state = "finished" /\ task[c].futs[i].taken
            /\ task[c].judged = task[c].contents[1]
            /\ \E i \in DOMAIN task[c].futs :
                 /\ task[c].futs[i].url = task[c].judged.url
                 /\ task[c].futs[i].out = Return(Some(task[c].judged.content))

\* A claim with two successful retrievals at its judge stage, judging the one
\* the search ranked second
C5_Witness ==
    \E c \in Tasks :
        /\ task[c].pc = "judge"
        /\ Len(task[c].futs) = 2
        /\ Len(task[c].contents) = 2
        /\ task[c].judged.url = task[c].futs[2].url
        /\ \A i \in DOMAIN task[c].futs : task[c].futs[i].state = "finished"

\* C6 (as stated): in the sequential run of main_local.py only the first URL
\* of the search is passed to retrieval.
C6_SequentialScrapesFirstUrlOnly ==
    phase = "sequential" =>
        \A c \in Tasks : \A i \in DOMAIN task[c].futs :
            i = 1 /\ task[c].futs[i].url = task[c].urls.v[1]

\* The claim is past its search stage
Searched(t) == t.pc \in {"scrape", "collect", "judge", "link", "returned", "raised"}

\* The search failed (None) or gave no URL
SearchGaveNothing(t) == ~t.urls.some \/ t.urls.v = <<>>

\* C10: a claim whose search failed or gave no URL ends right there: it has
\* returned, without any retrieval and without a judge call; its result has no
\* URLs and no verdict; the caller is not interrupted, and a loop that has
\* taken the result has moved on to the next claim.
C10_NoUrlIsTerminal ==
    \A c \in Tasks :
        (Searched(task[c]) /\ SearchGaveNothing(task[c])) =>
            /\ task[c].pc = "returned"
            /\ task[c].futs = <<>> /\ task[c].contents = <<>>
            /\ task[c].judged = NoContent
            /\ task[c].result = NoVerdict /\ task[c].link = ""
            /\ phase # "original" =>
                /\ task[c].ret.kind = "return"
                /\ task[c].ret.value.urls = NoUrls
                /\ task[c].ret.value.result = NoVerdict
                /\ task[c].ret.value.claim = task[c].claim
            /\ mainPc # "crashed" \/ idx # c
            /\ (mainPc = "loop" /\ task[c].taken) => idx > c

\* The first claim stopped at its search, the second one went on to a verdict
C10_Witness ==
    /\ Len(claims) = 2
    /\ Searched(task[1]) /\ SearchGaveNothing(task[1])
    /\ task[1].pc = "returned"
    /\ task[2].pc = "returned" /\ task[2].result.some

----------------------------------------------------------------------------
(* Properties of the stages of one claim, checked under Spec *)

\* Every retrieval submitted for the claim was collected and none gave content
AllRetrievalsFailed(t) ==
    /\ Len(t.futs) > 0
    /\ \A i \in DOMAIN t.futs :
        /\ t.futs[i].taken
        /\ ~(t.futs[i].out.kind = "return" /\ Truthy(t.futs[i].out.value))

\* C11: a claim none of whose retrievals gave content ends at "scrape failed":
\* once the retrieval pool is left the claim has returned, not raised, the
\* judge was not called (no judged content, no verdict, no link), and the dict
\* returned keeps the URL list and has no verdict.  In main.py the same holds
\* of the one retrieval of urls[0].
C11_ScrapeFailedIsTerminal ==
    \A c \in Tasks :
        /\ (phase # "original" /\ task[c].pc # "collect"
                /\ AllRetrievalsFailed(task[c])) =>
            /\ task[c].pc = "returned"
            /\ task[c].judged = NoContent
            /\ task[c].result = NoVerdict /\ task[c].link = ""
            /\ task[c].ret.kind = "return"
            /\ task[c].ret.value.urls = task[c].urls
            /\ task[c].ret.value.urls.some /\ Len(task[c].ret.value.urls.v) > 0
            /\ task[c].ret.value.result = NoVerdict
        /\ (phase = "original" /\ task[c].pc \in {"judge", "link", "returned", "raised"}
                /\ ~SearchGaveNothing(task[c])
                /\ ~Truthy(ScrapeWikipediaContent(task[c].urls.v[1],
                                                  WebOf(task[c].urls.v[1])).out.value)) =>
            /\ task[c].pc = "returned"
            /\ task[c].judged = NoContent
            /\ task[c].result = NoVerdict /\ task[c].link = ""

\* A claim of main_local.py whose two retrievals both failed, returned with its
\* two URLs and no verdict
C11_Witness ==
    \E c \in Tasks :
        /\ phase = "sequential"
        /\ AllRetrievalsFailed(task[c])
        /\ Len(task[c].futs) = 2
        /\ task[c].pc = "returned"
        /\ Len(task[c].ret.value.urls.v) = 2
        /\ ~task[c].ret.value.result.some

\* The claim's judge stage was entered
Judged(t) == t.judged # NoContent

\* The gateway's answer to the claim's judge prompt is an error, no answer or
\* an empty text
JudgeCallFailed(t) ==
    \/ GatewayJudge(t.claim, t.judged.content).kind \in {"exc", "none"}
    \/ /\ GatewayJudge(t.claim, t.judged.content).kind = "text"
       /\ GatewayJudge(t.claim, t.judged.content).text = ""

\* C12: when the judge gateway call of a claim fails, the claim's pipeline
\* does not raise; after the judge stage the claim has no verdict, and once it
\* has returned its link is the bare URL of the judged page and the dict
\* returned (main_local.py) has no verdict.
C12_JudgeFailureGivesBareLink ==
    \A c \in Tasks :
        (Judged(task[c]) /\ JudgeCallFailed(task[c])) =>
            /\ task[c].pc \in {"judge", "link", "returned"}
            /\ task[c].result = NoVerdict
            /\ task[c].pc = "returned" =>
                /\ task[c].link = task[c].judged.url
                /\ phase # "original" =>
                    /\ task[c].ret.kind = "return"
                    /\ task[c].ret.value.result = NoVerdict
                    /\ task[c].ret.value.urls = task[c].urls

\* A claim whose judge call raised, returned with the bare URL as its link
C12_Witness ==
    \E c \in Tasks :
        /\ Judged(task[c])
        /\ GatewayJudge(task[c].claim, task[c].judged.content).kind = "exc"
        /\ task[c].pc = "returned"
        /\ task[c].link = task[c].judged.url
        /\ task[c].link # ""

----------------------------------------------------------------------------
(* Properties of the stage functions, checked under SpecStages *)

JudgeDone == stPc = "done" /\ stCall.fn = "find_answer_in_article"

\* The gateway's answer to the judge prompt of the call
JudgeAnswer == GatewayJudge(stCall.claim, stCall.content)

\* The gateway answered a text the stage cannot parse as the JSON object it
\* expects: factcheck.py's model_validate_json rejects it; in
\* local_openai_client.py the pattern finds no object or json.loads rejects it.
JudgeTextUnparsable ==
    /\ JudgeAnswer.kind = "text"
    /\ JudgeAnswer.text # ""
    /\ IF stCall.module = "factcheck"
       THEN ~(/\ JudgeAnswer.json.whole /\ JudgeAnswer.json.valid
              /\ JudgeAnswer.json.label.t = "str"
              /\ JudgeAnswer.json.evidence.t = "str")
       ELSE ~(JudgeAnswer.json.embedded /\ JudgeAnswer.json.valid)

\* The text holds "true", in any case
SaysTrue(text) ==
    \E i \in 1..Len(text) :
        /\ i + 3 <= Len(text)
        /\ SubSeq(text, i, i + 3) \in
             {<<a, b, c, d>> : a \in {"t", "T"}, b \in {"r", "R"},
                               c \in {"u", "U"}, d \in {"e", "E"}}

C14_LabelIsTrueOrFalse ==
    (JudgeDone /\ stOut.kind = "return" /\ stOut.value.some) =>
        stOut.value.label \in {"True", "False"}

\* The gateway call failed, or it answered no text
NoTextFrom(resp) == resp.kind # "text" \/ resp.text = ""

\* C15: the rewriting stage always returns a text, and when the gateway call
\* fails or answers no text that text is the claim it was given, unchanged.
C15_OptimizeFallsBackToClaim ==
    (stPc = "done" /\ stCall.fn = "optimize_claim") =>
        /\ stOut \in STRING
        /\ NoTextFrom(GatewayOptimize(stCall.claim)) => stOut = stCall.claim

\* C16: the target-article stage always returns a text, and when the gateway
\* call fails or answers no text that text is the empty string.
C16_ArticleQueryFallsBackToEmpty ==
    (stPc = "done" /\ stCall.fn = "get_query_for_wiki_article") =>
        /\ stOut \in STRING
        /\ NoTextFrom(GatewayArticle(stCall.claim)) => stOut = ""

LinkDone == stPc = "done" /\ stCall.fn = "build_text_fragment_link"

\* The characters of the model's alphabet a URL fragment cannot hold as they
\* are (RFC 3986, 3.5); "%" can only start an escape.
FragmentUnsafe == {" ", "\"", "#", "{", "}", "\n"}

\* Every "%" of s starts an escape, and no other unsafe character is in s
FragmentSafe(s) ==
    \A i \in 1..Len(s) :
        /\ CharAt(s, i) \notin FragmentUnsafe
        /\ CharAt(s, i) = "%" =>
             (i + 2 <= Len(s) /\ SubSeq(s, i + 1, i + 2) \in DOMAIN PercentTable)

\* C17: without a verdict or with an empty evidence the link is the URL; with an
\* evidence it is the URL, then "#:~:text=", then an encoding of the evidence
\* (decoding it gives the evidence back) that holds no character in need of
\* percent-encoding as it is.
C17_FragmentLinkEncodesEvidence ==
    LinkDone =>
        IF ~stCall.result.some \/ stCall.result.evidence = ""
        THEN stOut = stCall.url
        ELSE LET head == stCall.url \o "#:~:text="
                 tail == SubSeq(stOut, Len(head) + 1, Len(stOut))
             IN  /\ Len(stOut) > Len(head)
                 /\ SubSeq(stOut, 1, Len(head)) = head
                 /\ FragmentSafe(tail)
                 /\ Unquote(tail) = stCall.result.evidence

\* An evidence with quotes, "%", "#", braces and spaces was linked
C17_Witness ==
    /\ LinkDone
    /\ stCall.url = UrlAda
    /\ stCall.result = Verdict("True", "50% of \"C++\" & more, #1: {a=b}?")
    /\ stOut = UrlAda \o "#:~:text="
                 \o "50%25%20of%20%22C%2B%2B%22%20%26%20more%2C%20%231%3A%20%7Ba%3Db%7D%3F"

SearchDone == stPc = "done" /\ stCall.fn = "get_first_n_results_urls"

\* The ranks of the items of a search answer that carry a link
Linked(resp) == {i \in 1..Len(resp.links) : Truthy(resp.links[i])}

\* The rank of the k-th item that carries a link
RankOfLinked(resp, k) ==
    CHOOSE j \in Linked(resp) : Cardinality({i \in Linked(resp) : i <= j}) = k

\* C18: a search for n results (a count, n >= 0) returns, in the engine's
\* order, the links of the first n items that carry one and never more than n
\* links; it returns the
\* absent value when the request fails or no item carries a link; it always
\* returns.
C18_FirstNLinksInRankedOrder ==
    SearchDone =>
        LET resp == SearchResponse(stCall.query)
        IN  IF resp.kind = "exc" \/ Linked(resp) = {}
            THEN stOut = NoUrls
            ELSE /\ stOut.some
                 /\ Len(stOut.v) = Min(stCall.n, Cardinality(Linked(resp)))
                 /\ Len(stOut.v) <= stCall.n
                 /\ \A k \in 1..Len(stOut.v) :
                        stOut.v[k] = resp.links[RankOfLinked(resp, k)].text

\* Two of three links were asked for, behind an item without a link
C18_Witness ==
    /\ SearchDone
    /\ stCall.query = "Alan Turing"
    /\ stCall.n = 2
    /\ stOut = SomeUrls(<<UrlTuring, UrlTuringBlog>>)

----------------------------------------------------------------------------
(* Properties of the sequential loop, checked under Spec *)

\* A run of the for loop over the claims: main.py, or main_local.py's
\* process_query_sequential
InSequentialRun == phase \in {"original", "sequential"} /\ mainPc # "extract"

\* C19: in sequential mode the pipeline of a claim starts only after the
\* pipelines of all claims before it returned, so at most one runs at a time,
\* and the results list holds the results of the claims done so far, one per
\* claim in input order: of all the claims when the run returns.
C19_SequentialInInputOrder ==
    InSequentialRun =>
        /\ \A c \in Tasks : task[c].pc # "new" =>
               \A d \in 1..(c - 1) : task[d].pc = "returned"
        /\ Cardinality({c \in Tasks : Active(task[c])}) <= 1
        /\ phase = "sequential" =>
            /\ Len(results) <= Len(claims)
            /\ \A i \in 1..Len(results) :
                   /\ results[i].claim = claims[i]
                   /\ results[i] = task[i].ret.value
            /\ mainPc = "returned" => Len(results) = Len(claims)

\* A sequential run over two different claims returned both results
C19_Witness ==
    /\ phase = "sequential"
    /\ mainPc = "returned"
    /\ Len(claims) = 2
    /\ claims[1] # claims[2]
    /\ Len(results) = 2
    /\ results[1].claim = claims[1]
    /\ results[2].claim = claims[2]

----------------------------------------------------------------------------
(* Properties of title extraction, checked under SpecStages *)

----------------------------------------------------------------------------
(* Properties of a whole run, checked under Spec *)

\* C21: a process_query that runs to its end returns 0, whatever became of each
\* claim; no other status is ever returned, and a run ends without returning
\* only when the pipeline of a claim raised.
C21_CompletionExitsZero ==
    /\ exitStatus \in {-1, 0}
    /\ mainPc = "returned" => exitStatus = 0
    /\ mainPc = "crashed" => \E c \in Tasks : task[c].pc = "raised"

\* A parallel run returned 0 with a claim stopped at search and a claim judged
C21_Witness ==
    /\ phase = "parallel"
    /\ mainPc = "returned"
    /\ exitStatus = 0
    /\ \E c, d \in Tasks :
        /\ task[c].ret = Returned(task[c].ret.value)
        /\ ~task[c].ret.value.urls.some
        /\ task[d].ret.value.result.some

\* The pipeline of the claim about Ada Lovelace returned, the search having
\* answered the article's URL
AdaReturned(c) ==
    /\ task[c].claim = ClaimAda
    /\ task[c].pc = "returned"
    /\ task[c].urls = SomeUrls(<<UrlAda>>)

\* C22: for the claim "Ada Lovelace was born in 1815.", the search answering
\* the article's URL, the retrieval a text that holds "born on 10 December
\* 1815" and the judge the label "True" with that evidence, the claim's result
\* has the label "True" and the link is the URL, "#:~:text=" and the evidence
\* percent-encoded.
C22_AdaEndToEnd ==
    \A c \in Tasks : AdaReturned(c) =>
        /\ Contains(task[c].judged.content, "born on 10 December 1815")
        /\ task[c].result = Verdict("True", "born on 10 December 1815")
        /\ task[c].link = UrlAda \o "#:~:text=born%20on%2010%20December%201815"
        /\ phase # "original" =>
            /\ task[c].ret.kind = "return"
            /\ task[c].ret.value.result.label = "True"
            /\ task[c].ret.value.urls = SomeUrls(<<UrlAda>>)

\* The run of main_local.py over that single claim returned
C22_Witness ==
    /\ phase = "parallel"
    /\ mainPc = "returned"
    /\ claims = <<ClaimAda>>
    /\ AdaReturned(1)
    /\ Len(results) = 1
    /\ results[1].result = Verdict("True", "born on 10 December 1815")
    /\ task[1].link = UrlAda \o "#:~:text=born%20on%2010%20December%201815"

----------------------------------------------------------------------------
(* Properties of the two pools, checked under SpecPool *)

\* The retrievals of a claim that a worker is executing
Retrieving(t) == {i \in DOMAIN t.futs : t.futs[i].state = "running"}

\* C23: at every moment of a parallel run at most min(number of claims, 3)
\* pipelines are executing, and within each claim at most min(number of its
\* URLs, 3) retrievals are.
C23_PoolWidths ==
    phase = "parallel" =>
        /\ Cardinality({c \in Tasks : Active(task[c])}) <= Min(Len(claims), 3)
        /\ \A c \in Tasks :
               Cardinality(Retrieving(task[c])) <= Min(Len(task[c].urls.v), 3)

\* Both pools are full with work left: three of four pipelines are executing
\* and the fourth is queued, and in one claim three of four retrievals are
\* executing and the fourth is pending
C23_Witness ==
    /\ phase = "parallel"
    /\ Len(claims) = 4
    /\ Cardinality({c \in Tasks : Active(task[c])}) = 3
    /\ \E c \in Tasks : task[c].pc = "queued"
    /\ \E c \in Tasks :
        /\ Len(task[c].urls.v) = 4
        /\ Cardinality(Retrieving(task[c])) = 3
        /\ \E i \in DOMAIN task[c].futs : task[c].futs[i].state = "pending"

----------------------------------------------------------------------------
(* Properties of the ownership of the state, checked under Spec *)

\* The record of a task but for the mark the orchestrating caller puts on it
\* when it takes the task's outcome
RecordOf(t) == [t EXCEPT !.taken = FALSE]

\* The tasks whose record a step changes
Written == {c \in Tasks \cap DOMAIN task' : task'[c] # task[c]}

\* Workers of the claim pool, or the pipeline of a claim, are running
WorkersRun == mainPc = "collect" \/ \E c \in Tasks : Active(task[c])

\* The orchestrating caller takes the outcome of the finished task c and, when
\* it is a dict, appends it to results
Collects(c) ==
    /\ mainPc \in {"loop", "collect"}
    /\ Finished(task[c])
    /\ ~task[c].taken
    /\ task'[c] = [task[c] EXCEPT !.taken = TRUE]
    /\ results' \in {results, Append(results, task[c].ret.value)}

----------------------------------------------------------------------------
(* Properties of the order of the stages of a claim, checked under Spec *)

\* The places a pipeline can come from when it starts a stage, or ends
StageBefore(pc) ==
    CASE pc = "optimize" -> {"new", "queued"}
      [] pc = "article" -> {"optimize"}
      [] pc = "search" -> {"article"}
      [] pc = "scrape" -> {"search"}
      [] pc = "collect" -> {"scrape"}
      [] pc = "judge" -> {"scrape", "collect"}
      [] pc = "link" -> {"judge"}
      [] pc = "returned" -> {"search", "scrape", "collect", "link"}
      [] pc = "raised" -> {"scrape", "judge"}
      [] OTHER -> {"new"}

\* The states a retrieval goes through, in order
FutureRank(st) == CASE st = "pending" -> 0 [] st = "running" -> 1 [] OTHER -> 2

\* C25: the pipeline of a claim calls optimize, target-article, search,
\* retrieval, judge and link build in that order, a stage starting only where
\* the one before it returned, so optimize, target-article, search and judge
\* are each called at most once; there is at most one retrieval for each URL of
\* the search's list, and it is started at most once.
C25_StagesInOrder ==
    [][ \A c \in Tasks \cap DOMAIN task' :
          /\ task'[c].pc # task[c].pc => task[c].pc \in StageBefore(task'[c].pc)
          /\ Len(task'[c].futs) <= Len(task'[c].urls.v)
          /\ \A i \in DOMAIN task'[c].futs : task'[c].futs[i].url = task'[c].urls.v[i]
          /\ task[c].futs # <<>> =>
                /\ DOMAIN task'[c].futs = DOMAIN task[c].futs
                /\ \A i \in DOMAIN task[c].futs :
                      /\ FutureRank(task'[c].futs[i].state) >= FutureRank(task[c].futs[i].state)
                      /\ FutureRank(task'[c].futs[i].state) <= FutureRank(task[c].futs[i].state) + 1
      ]_vars

\* A pipeline went through all six stages, with two retrievals
C25_Witness ==
    \E c \in Tasks :
        /\ task[c].pc = "returned"
        /\ task[c].link # ""
        /\ Len(task[c].futs) = 2
        /\ \A i \in DOMAIN task[c].futs : task[c].futs[i].state = "finished"

----------------------------------------------------------------------------
(* Properties of the judge's fallback, checked under SpecStages *)

\* The gateway answered a text that is not valid JSON for the stage:
\* factcheck.py reads the whole text as JSON, local_openai_client.py the first
\* {...} of it.
JudgeTextNotJson ==
    /\ JudgeAnswer.kind = "text"
    /\ JudgeAnswer.text # ""
    /\ IF stCall.module = "factcheck"
       THEN ~(JudgeAnswer.json.whole /\ JudgeAnswer.json.valid)
       ELSE ~(JudgeAnswer.json.embedded /\ JudgeAnswer.json.valid)

\* The fallback finds nothing better than its default: factcheck.py looks for
\* nothing; local_openai_client.py for "true" and for a quoted evidence.
NothingBetterFound ==
    \/ stCall.module = "factcheck"
    \/ ~SaysTrue(JudgeAnswer.text) /\ ~Contains(JudgeAnswer.text, "\"evidence\"")

\* C26: when the judge's text is not valid JSON the judge stage does not raise
\* and returns a verdict made by the fallback, which is the label "False" with
\* the raw text as evidence when the fallback finds nothing better.
C26_FallbackDefaultsToFalseWithRawText ==
    (JudgeDone /\ JudgeTextNotJson) =>
        /\ stOut.kind = "return"
        /\ stOut.value.some
        /\ NothingBetterFound => stOut.value = Verdict("False", JudgeAnswer.text)

----------------------------------------------------------------------------
(* Properties of the record of a claim, checked under Spec *)

\* The pipeline of c returned a record
HasRecord(c) == task[c].ret.kind = "return"

\* Some retrieval of the claim gave content
SomeContent(t) ==
    \E i \in DOMAIN t.futs :
        /\ t.futs[i].state = "finished"
        /\ t.futs[i].out.kind = "return"
        /\ Truthy(t.futs[i].out.value)

\* C27: every record process_single_claim returns has the keys claim,
\* optimized, article_query, urls, result, total_time and timing with the five
\* stage durations, and shows where the claim stopped: urls is absent exactly
\* when the search gave no URL, and then the scrape and factcheck durations are
\* 0; the factcheck duration is 0 when no retrieval gave content; and a verdict
\* is there only with a non-empty urls and a retrieval that gave content.
C27_RecordShowsWhereItStopped ==
    \A c \in Tasks : HasRecord(c) =>
        LET t == task[c]
            r == t.ret.value
        IN  /\ DOMAIN r = {"claim", "optimized", "article_query", "urls", "result",
                           "total_time", "timing"}
            /\ DOMAIN r.timing = {"optimize", "query", "urls", "scrape", "factcheck"}
            /\ r.claim = t.claim
            /\ r.optimized = t.optimized
            /\ r.article_query = t.article_query
            /\ ~r.urls.some <=> (~t.urls.some \/ t.urls.v = <<>>)
            /\ r.urls.some => r.urls = t.urls
            /\ ~r.urls.some => (r.timing.scrape = NoTime /\ r.timing.factcheck = NoTime)
            /\ (r.urls.some /\ ~SomeContent(t)) =>
                   (r.timing.factcheck = NoTime /\ ~r.result.some)
            /\ r.result.some => (r.urls.some /\ r.urls.v # <<>> /\ SomeContent(t))

\* A record of a claim stopped at retrieval and a record with a verdict
C27_Witness ==
    /\ \E c \in Tasks :
        /\ HasRecord(c)
        /\ task[c].ret.value.urls.some
        /\ ~SomeContent(task[c])
    /\ \E c \in Tasks : HasRecord(c) /\ task[c].ret.value.result.some

----------------------------------------------------------------------------
(* Properties of the mobile-HTML tier, checked under SpecScrape *)

\* The mobile-HTML tier supplied the result of the call
MobileSupplied ==
    /\ ScrapeDone
    /\ sRes.calls = <<"plain", "mobile">>
    /\ sRes.out.kind = "return"
    /\ Truthy(sRes.out.value)

\* The element matches a selector of the removal set
Removed(e) ==
    e.cls \in {"navbox", "infobox", "sidebar", "reference", "mw-editsection",
               "mw-jump-link", "toc", "catlinks", "mw-cite-backlink"}

\* The element is a heading, a paragraph or a list item that is kept and whose
\* text, without the whitespace around it, is longer than 10 characters
IsFragment(e) ==
    /\ e.tag \in {"h1", "h2", "h3", "h4", "h5", "h6", "p", "li"}
    /\ ~Removed(e)
    /\ Len(Strip(e.text)) > 10

\* The fragments of a page, in the order of the page
RECURSIVE FragmentsOf(_)
FragmentsOf(els) ==
    IF els = <<>> THEN <<>>
    ELSE (IF IsFragment(Head(els)) THEN <<Strip(Head(els).text)>> ELSE <<>>)
            \o FragmentsOf(Tail(els))

\* The mobile page answered with status 200 holds no fragment
MobileHasNoFragment ==
    /\ sWeb.mobile.kind = "resp"
    /\ sWeb.mobile.status = 200
    /\ FragmentsOf(sWeb.mobile.doc.els) = <<>>

\* C28: when the mobile-HTML tier supplies the result, the text is the
\* fragments of the page's headings, paragraphs and list items longer than 10
\* characters, joined by blank lines, and holds no text of an element of the
\* removal set; when the page holds no such fragment the tier has failed and
\* the generic tier is called.
C28_MobileTextIsKeptFragments ==
    /\ MobileSupplied =>
        /\ sRes.out.value.text = Join("\n\n", FragmentsOf(sWeb.mobile.doc.els))
        /\ \A i \in DOMAIN sWeb.mobile.doc.els :
               Removed(sWeb.mobile.doc.els[i]) =>
                   ~Contains(sRes.out.value.text, Strip(sWeb.mobile.doc.els[i].text))
    /\ (ScrapeDone /\ TitleExtracted /\ PlainFails /\ MobileHasNoFragment) =>
           /\ Called("generic")
           /\ \A i, j \in DOMAIN sRes.calls :
                  (sRes.calls[i] = "mobile" /\ sRes.calls[j] = "generic") => i < j

\* The mobile page of the article supplied its heading and its paragraph
C28_Witness ==
    /\ MobileSupplied
    /\ sWeb.mobile.doc = DocArticle
    /\ sRes.out.value.text = "Ada Lovelace page\n\nAda was born on 10 December 1815."

----------------------------------------------------------------------------
(* Properties of the end of a run, checked under Spec *)

\* The run is over: process_query returned, or an exception left it
RunEnded == mainPc \in {"returned", "crashed"}

\* Some step of the run is possible
RunCanStep ==
    \/ mainPc \in {"extract", "submit"}
    \/ /\ mainPc = "loop"
       /\ \/ idx = Len(claims) + 1
          \/ /\ idx \in Tasks
             /\ \/ task[idx].pc = "new"
                \/ CanStep(idx)
                \/ Finished(task[idx]) /\ ~task[idx].taken
    \/ /\ mainPc = "collect"
       /\ \/ ENABLED Summarize
          \/ \E d \in Tasks :
                ENABLED TakeClaim(d) \/ ENABLED WorkerStart(d) \/ CanStep(d)
    \/ ENABLED CompareNext

\* What is left to do of a retrieval
FutureLeft(f) ==
    CASE f.state = "pending" -> 3
      [] f.state = "running" -> 2
      [] OTHER -> IF f.taken THEN 0 ELSE 1

RECURSIVE FuturesLeft(_)
FuturesLeft(futs) ==
    IF futs = <<>> THEN 0 ELSE FutureLeft(Head(futs)) + FuturesLeft(Tail(futs))

\* What is left to do of the pipeline of a claim
StageLeft(pc) ==
    CASE pc = "new" -> 10 [] pc = "queued" -> 9 [] pc = "optimize" -> 8
      [] pc = "article" -> 7 [] pc = "search" -> 6 [] pc = "scrape" -> 5
      [] pc = "collect" -> 4 [] pc = "judge" -> 3 [] pc = "link" -> 2
      [] OTHER -> 0

RECURSIVE TasksLeft(_)
TasksLeft(ts) ==
    IF ts = <<>> THEN 0
    ELSE 100 * StageLeft(Head(ts).pc) + FuturesLeft(Head(ts).futs)
            + (IF Head(ts).taken THEN 0 ELSE 1) + TasksLeft(Tail(ts))

\* What is left to do of the run: every step makes it smaller
RunLeft ==
    (IF mode = "compare" /\ phase = "sequential" THEN 1000000 ELSE 0)
      + 10000 * (CASE mainPc = "extract" -> 4
                   [] mainPc \in {"submit", "loop"} -> 3
                   [] mainPc = "collect" -> 2
                   [] OTHER -> 0)
      + TasksLeft(task)

\* No run goes on for ever: every step brings the run nearer to its end
RunsMakeProgress == [][RunLeft' < RunLeft]_vars

\* No run is stuck: a run that is not over can take a step, so neither pool
\* waits for the other
RunsAreNeverStuck == ~RunEnded => RunCanStep

\* C29: the sequential and the parallel run are never stuck before their end,
\* and they end by returning.
C29_RunsEndByReturning ==
    /\ ~RunEnded => RunCanStep
    /\ mainPc # "crashed"

----------------------------------------------------------------------------
(* Properties of the evidence link, checked under Spec *)

\* The pipeline of claim c went through its link stage
LinkBuilt(c) == task[c].pc = "returned" /\ task[c].link # ""

\* Retrieval i of the pipeline returned content
Succeeded(t, i) ==
    /\ t.futs[i].state = "finished"
    /\ t.futs[i].out.kind = "return"
    /\ Truthy(t.futs[i].out.value)

\* The link is the one of the judged URL and of the verdict
LinkOfJudged(t) == t.link = BuildTextFragmentLink(t.judged.url, t.result)

\* The judged content is the one a successful retrieval of the judged URL gave
JudgedWasRetrieved(t) ==
    \E i \in DOMAIN t.futs :
        /\ Succeeded(t, i)
        /\ t.futs[i].url = t.judged.url
        /\ t.futs[i].out.value.text = t.judged.content

----------------------------------------------------------------------------
(* Properties of the optimize stage's output, checked under SpecTwin *)

\* Both pipelines of the claim are at pc or after it
BothPast(pc) ==
    /\ Len(task) = 2
    /\ StageLeft(task[1].pc) < StageLeft(pc)
    /\ StageLeft(task[2].pc) < StageLeft(pc)

\* The URLs whose content the as_completed loop collected, in its order
CollectedUrls(t) == [k \in DOMAIN t.contents |-> t.contents[k].url]

\* The retrieval calls of a pipeline and what they gave
Retrievals(t) == [i \in DOMAIN t.futs |-> [url |-> t.futs[i].url, out |-> t.futs[i].out]]

\* What a finished pipeline called and gave, its optimized claim left out
OutcomeButOptimized(t) ==
    [pc |-> t.pc, article_input |-> ArticleInput(t), article_query |-> t.article_query,
     urls |-> t.urls, retrievals |-> Retrievals(t),
     judge_input |-> <<t.judged.content, t.claim>>, judged |-> t.judged,
     result |-> t.result, link |-> t.link,
     ret |-> [t.ret EXCEPT !.value.optimized = ""]]

\* C31: two pipelines of the same claim that differ in what optimize_claim
\* returned ask for the same target article, search the same query, retrieve
\* the same URLs and, the retrieval loop collecting in the same order, judge
\* the same content and end with the same verdict, link and result, the
\* 'optimized' field apart.
C31_OptimizedInfluencesNothing ==
    /\ BothPast("article") =>
          /\ ArticleInput(task[1]) = ArticleInput(task[2])
          /\ task[1].article_query = task[2].article_query
    /\ BothPast("search") => task[1].urls = task[2].urls
    /\ BothPast("scrape") =>
          [i \in DOMAIN task[1].futs |-> task[1].futs[i].url]
             = [i \in DOMAIN task[2].futs |-> task[2].futs[i].url]
    /\ (BothPast("collect") /\ CollectedUrls(task[1]) = CollectedUrls(task[2])) =>
          task[1].judged = task[2].judged
    /\ (BothPast("link") /\ CollectedUrls(task[1]) = CollectedUrls(task[2])) =>
          OutcomeButOptimized(task[1]) = OutcomeButOptimized(task[2])
    /\ \A c \in Tasks :
          (task[c].ret.kind = "return" /\ phase # "original") =>
              task[c].ret.value.optimized = task[c].optimized

\* Two pipelines of a claim ended with a link, their optimized claims differing
C31_Witness ==
    /\ BothPast("link")
    /\ task[1].optimized # task[2].optimized
    /\ task[1].link # "" /\ task[2].link # ""
    /\ Len(task[1].contents) = 2
    /\ CollectedUrls(task[1]) = CollectedUrls(task[2])

----------------------------------------------------------------------------
(* Properties of the local judge's heuristic fallback, checked under       *)
(* SpecStages                                                              *)

\* The local judge answered a text and made its verdict by the fallback: the
\* pattern found no object in the text, or json.loads rejected the one found
LocalFallbackUsed ==
    /\ JudgeDone
    /\ stCall.module = "local_factcheck_full"
    /\ JudgeAnswer.kind = "text"
    /\ JudgeAnswer.text # ""
    /\ ~(JudgeAnswer.json.embedded /\ JudgeAnswer.json.valid)

\* The text holds "false", in any case
SaysFalse(text) ==
    \E i \in 1..Len(text) :
        /\ i + 4 <= Len(text)
        /\ SubSeq(text, i, i + 4) \in
             {<<a, b, c, d, e>> : a \in {"f", "F"}, b \in {"a", "A"}, c \in {"l", "L"},
                                  d \in {"s", "S"}, e \in {"e", "E"}}

\* In text an "evidence": key starts at i, and after spaces only a quoted value
\* runs from the quote at q to the next quote, at r
KeyedAt(text, i, q, r) ==
    /\ i + 10 <= Len(text)
    /\ SubSeq(text, i, i + 10) = "\"evidence\":"
    /\ i + 11 <= q /\ q < r /\ r <= Len(text)
    /\ \A k \in (i + 11)..(q - 1) : CharAt(text, k) \in Whitespace
    /\ CharAt(text, q) = "\"" /\ CharAt(text, r) = "\""
    /\ \A k \in (q + 1)..(r - 1) : CharAt(text, k) # "\""

\* A quoted value follows an "evidence": key that starts at i
KeyedFrom(text, i) ==
    \E q \in 1..Len(text) : \E r \in 1..Len(text) : KeyedAt(text, i, q, r)

\* e is the quoted value that follows the first "evidence": key that has one
KeyedEvidence(text, e) ==
    \E i \in 1..Len(text) : \E q \in 1..Len(text) : \E r \in 1..Len(text) :
        /\ KeyedAt(text, i, q, r)
        /\ \A k \in 1..(i - 1) : ~KeyedFrom(text, k)
        /\ e = SubSeq(text, q + 1, r - 1)

\* C32: the verdict the local judge's fallback makes has the label "True" when
\* the response holds "true" in any letter case, whether or not it holds
\* "false", and the label "False" otherwise; its evidence is the quoted value
\* that follows an "evidence": key when the response has one, and otherwise
\* the first 200 characters of the response.
C32_FallbackLabelAndEvidence ==
    LocalFallbackUsed =>
        /\ stOut.kind = "return"
        /\ stOut.value.some
        /\ SaysTrue(JudgeAnswer.text) => stOut.value.label = "True"
        /\ ~SaysTrue(JudgeAnswer.text) => stOut.value.label = "False"
        /\ (\E i \in 1..Len(JudgeAnswer.text) : KeyedFrom(JudgeAnswer.text, i)) =>
              KeyedEvidence(JudgeAnswer.text, stOut.value.evidence)
        /\ ~(\E i \in 1..Len(JudgeAnswer.text) : KeyedFrom(JudgeAnswer.text, i)) =>
              /\ Len(stOut.value.evidence) = Min(200, Len(JudgeAnswer.text))
              /\ StartsWith(JudgeAnswer.text, stOut.value.evidence)

\* The fallback read "True" in a response that holds both words, and took the
\* quoted value after the key as evidence
C32_Witness ==
    /\ LocalFallbackUsed
    /\ SaysTrue(JudgeAnswer.text) /\ SaysFalse(JudgeAnswer.text)
    /\ stOut.value = Verdict("True", "it is not true that it has none")

====
